---------------------------- MODULE Spec2Model ----------------------------
(***************************************************************************)
(* structjs: the type registry (Struct.#loadedStructs), the schema         *)
(* compiler (new Struct), the recursive struct codec (readStruct,          *)
(* writeStruct, readValue, writeValue), the primitive type table, the      *)
(* Bitfield classes and the stream DataViewStream.                         *)
(*                                                                         *)
(* Representation of JavaScript values.  Every value is a record with a   *)
(* tag t:                                                                  *)
(*   "int"    an integer Number or BigInt.  bits is the set of positions   *)
(*            of the 1 bits of its two's complement pattern (position 0    *)
(*            is the least significant bit), neg says that the value is    *)
(*            negative (then every position >= w is a 1 bit too), w is the *)
(*            width the pattern is stored with and big says BigInt.        *)
(*   "bool", "char", "str" (a text), "string" (the char codes a string     *)
(*   read from a buffer holds), "arr", "obj" (a sequence of entries in     *)
(*   insertion order), "bitfield", "undef".                                *)
(* A Number that need not be an integer (a position, a sizeof) is a record *)
(* with k in {"int", "nan", "inf", "ninf"}.                                *)
(***************************************************************************)
EXTENDS Integers, Sequences, FiniteSets, TLC

\* TLC stores a record's fields in the order in which their names first occur
\* in the module.  They are named here in alphabetical order and every record
\* below is written in that order, so that a record is in its stored order
\* from the moment it is built.
RecordFields ==
    [arrayLength |-> 0, before |-> 0, big |-> 0, bits |-> 0, bitValue |-> 0,
     code |-> 0, codec |-> 0, codes |-> 0, count |-> 0, data |-> 0, defined |-> 0,
     entries |-> 0, err |-> 0, fields |-> 0, flag |-> 0, hasRead |-> 0,
     hasWrite |-> 0, head |-> 0, items |-> 0, k |-> 0, kind |-> 0, le |-> 0,
     length |-> 0, n |-> 0, name |-> 0, neg |-> 0, obj |-> 0, offset |-> 0,
     ok |-> 0,
     op |-> 0, options |-> 0, position |-> 0, props |-> 0, reg |-> 0,
     sizeof |-> 0, structInfo |-> 0, structName |-> 0, t |-> 0, text |-> 0,
     type |-> 0, value |-> 0, varName |-> 0, varType |-> 0, w |-> 0, W |-> 0,
     whence |-> 0]

VARIABLES
    loadedStructs,  \* Struct.#loadedStructs: type name -> descriptor
    data,           \* the bytes under the DataView handed to the codec
    bf,             \* the Bitfield object under test
    seek_head,      \* DataViewStream.#seek_head of the stream over data
    last            \* the last call: its arguments and its outcome

vars == <<loadedStructs, data, bf, seek_head, last>>

---------------------------------------------------------------------------
(* Bit patterns.                                                           *)

Ones(k) == {i \in 0..31 : i < k}

Word32 == 0..31

\* ToInt32 of an integer: its low 32 bits (sign extension supplies the
\* positions at or above the stored width of a negative value).
ToInt32(v) ==
    {i \in Word32 : i \in v.bits \/ (v.neg /\ i >= v.w)}

\* x >> n on int32 patterns: the count is taken modulo 32, the sign bit is
\* replicated.
Sar(P, n) ==
    LET c == n % 32
    IN {i \in Word32 : IF i + c <= 31 THEN (i + c) \in P ELSE 31 \in P}

\* x << n on int32 patterns: the count is taken modulo 32.
Shl(P, n) ==
    LET c == n % 32
    IN {i \in Word32 : i >= c /\ (i - c) \in P}

\* ToInt32((1 << length) - 1): 1 << length shifts by length modulo 32.
LowMask(length) == Ones(length % 32)

\* The Number an int32 pattern denotes.
Int32Value(P) == [big |-> FALSE, bits |-> P, neg |-> 31 \in P, t |-> "int", w |-> 32]

\* A non-negative integer Number with the given 1 bits.
Unsigned(S, w) == [big |-> FALSE, bits |-> S, neg |-> FALSE, t |-> "int", w |-> w]

\* A non-negative BigInt with the given 1 bits.
BigUnsigned(S, w) == [big |-> TRUE, bits |-> S, neg |-> FALSE, t |-> "int", w |-> w]

\* Two integer values denote the same integer.
SameInteger(a, b) ==
    /\ a.neg = b.neg
    /\ LET m == IF a.w > b.w THEN a.w ELSE b.w
       IN \A i \in 0..(m - 1) :
            (i \in a.bits \/ (a.neg /\ i >= a.w)) = (i \in b.bits \/ (b.neg /\ i >= b.w))

Undefined == [t |-> "undef"]

\* let x = v; then the rest Op(x): v is evaluated once, whatever the number
\* of places of the rest that use it.
Let(v, Op(_)) == CHOOSE y \in {Op(x) : x \in {v}} : TRUE

\* One sub-field of a bitfield layout: its name and its width in bits.
Field(name, length) == [length |-> length, name |-> name]

---------------------------------------------------------------------------
(* Numbers that need not be integers: positions, sizes.                    *)

Num(n) == [k |-> "int", n |-> n]

NaN == [k |-> "nan", n |-> 0]

PosInf == [k |-> "inf", n |-> 0]

NegInf == [k |-> "ninf", n |-> 0]

\* The value undefined where a Number is expected (string.sizeof).
UndefinedNumber == [k |-> "undef", n |-> 0]

IsNaN(a) == a.k \in {"nan", "undef"}

\* a + b
JsAdd(a, b) ==
    IF IsNaN(a) \/ IsNaN(b) THEN NaN
    ELSE IF a.k = "int" /\ b.k = "int" THEN Num(a.n + b.n)
    ELSE IF a.k = "int" THEN b
    ELSE IF b.k = "int" \/ a.k = b.k THEN a
    ELSE NaN

\* a * b, for a finite integer a
JsMul(a, b) ==
    IF IsNaN(a) \/ IsNaN(b) THEN NaN
    ELSE IF b.k = "int" THEN Num(a.n * b.n)
    ELSE IF a.n = 0 THEN NaN
    ELSE IF (a.n > 0) = (b.k = "inf") THEN PosInf
    ELSE NegInf

\* a < b
JsLt(a, b) ==
    IF IsNaN(a) \/ IsNaN(b) THEN FALSE
    ELSE IF a.k = "int" /\ b.k = "int" THEN a.n < b.n
    ELSE IF a.k = b.k THEN FALSE
    ELSE a.k = "ninf" \/ b.k = "inf"

\* a > b
JsGt(a, b) == JsLt(b, a)

---------------------------------------------------------------------------
(* PrimitiveTypes.js and the registry Struct.#loadedStructs.               *)

PrimitiveNames ==
    {"u8", "s8", "u16", "s16", "u32", "s32", "u64", "s64",
     "float", "double", "char", "bool", "string"}

\* primitiveTypes[name].sizeof
PrimitiveSizeof(name) ==
    CASE name \in {"u8", "s8", "char"} -> Num(1)
      [] name \in {"u16", "s16"} -> Num(2)
      [] name \in {"u32", "s32", "float", "bool"} -> Num(4)
      [] name \in {"u64", "s64", "double"} -> Num(8)
      [] name = "string" -> UndefinedNumber

\* The table primitiveTypes: every entry has read, every entry but string
\* has write.
primitiveTypes ==
    [name \in PrimitiveNames |->
        [hasRead |-> TRUE, hasWrite |-> name # "string", kind |-> "primitive",
         name |-> name, sizeof |-> PrimitiveSizeof(name)]]

\* Names every plain object inherits from Object.prototype.  loadedStructs
\* (new Object) and primitiveTypes (an object literal) are plain objects, so
\* obj[name] is a function for these names although obj has no such entry.
ObjectPrototypeNames ==
    {"constructor", "toString", "valueOf", "hasOwnProperty", "isPrototypeOf",
     "propertyIsEnumerable", "toLocaleString"}

\* What obj[name] yields for an inherited name: a function without sizeof,
\* read, write or props.
Inherited(name) ==
    [hasRead |-> FALSE, hasWrite |-> FALSE, kind |-> "inherited",
     name |-> name, sizeof |-> UndefinedNumber]

\* obj[name] for a plain object with the entries of table.
Property(table, name) ==
    IF name \in DOMAIN table THEN table[name]
    ELSE IF name \in ObjectPrototypeNames THEN Inherited(name)
    ELSE Undefined

\* typeof obj[name] !== 'undefined'
IsDefined(table, name) ==
    name \in DOMAIN table \/ name \in ObjectPrototypeNames

\* obj[name] = descriptor
Assign(table, name, descriptor) ==
    [x \in DOMAIN table \cup {name} |-> IF x = name THEN descriptor ELSE table[x]]

\* A class as registerFromClass sees it.  codec names the built-in type whose
\* bytes its read and write handle.
Class(name, sizeof, codec, hasRead, hasWrite) ==
    [codec |-> codec, hasRead |-> hasRead, hasWrite |-> hasWrite,
     kind |-> "class", name |-> name, sizeof |-> sizeof]

NotAClass == [kind |-> "object"]

\* Struct.registerFromClass(Class): the checks of typeof Class, Class.sizeof
\* and Class.read, then the assignment (the static name of every class here
\* is a string).
RegisterFromClass(reg, C) ==
    IF C.kind # "class" THEN [err |-> "TypeError", reg |-> reg]
    ELSE IF C.sizeof.k = "undef" THEN [err |-> "TypeError", reg |-> reg]
    ELSE IF ~C.hasRead THEN [err |-> "TypeError", reg |-> reg]
    ELSE [err |-> "none", reg |-> Assign(reg, C.name, C)]

\* Bitfield8, Bitfield16, Bitfield32, Bitfield64 as classes.
BitfieldClass(W) ==
    CASE W = 8 -> Class("Bitfield8", Num(1), "Bitfield8", TRUE, TRUE)
      [] W = 16 -> Class("Bitfield16", Num(2), "Bitfield16", TRUE, TRUE)
      [] W = 32 -> Class("Bitfield32", Num(4), "Bitfield32", TRUE, TRUE)
      [] W = 64 -> Class("Bitfield64", Num(8), "Bitfield64", TRUE, TRUE)

\* The registry once index.js is loaded: the static block of Struct copies
\* primitiveTypes, the static block of each Bitfield class registers it.
InitialRegistry ==
    LET r8  == RegisterFromClass(primitiveTypes, BitfieldClass(8)).reg
        r16 == RegisterFromClass(r8, BitfieldClass(16)).reg
        r32 == RegisterFromClass(r16, BitfieldClass(32)).reg
    IN RegisterFromClass(r32, BitfieldClass(64)).reg

---------------------------------------------------------------------------
(* The schema compiler: the constructor of Struct.                         *)
(*                                                                         *)
(* A schema text is a sequence of lexemes: identifiers, digit strings and  *)
(* the single characters " ", "\n", "\r", "{", "}", "[", "]", ":", ",",    *)
(* "#".  The identifiers of the schemas below start with a letter and hold *)
(* no underscore, so the identifier patterns of varPattern, arrayPattern   *)
(* and the bitfield key pattern agree on them.                             *)

Punctuation == {" ", "\n", "\r", "{", "}", "[", "]", ":", ",", "#"}

DigitStrings == {"0", "1", "2", "3", "4", "5", "8", "12"}

\* parseInt and JSON.parse on a digit string.
ParseInt(x) ==
    CASE x = "0" -> 0 [] x = "1" -> 1 [] x = "2" -> 2 [] x = "3" -> 3
      [] x = "4" -> 4 [] x = "5" -> 5 [] x = "8" -> 8 [] x = "12" -> 12

IsIdentifier(x) == x \notin Punctuation /\ x \notin DigitStrings

\* structInfo.replaceAll('\r', '')
StripCR(text) == SelectSeq(text, LAMBDA c : c # "\r")

RECURSIVE SplitOn(_, _)
\* text.split(sep) for a one-character separator.
SplitOn(text, sep) ==
    IF \A i \in 1..Len(text) : text[i] # sep THEN <<text>>
    ELSE LET i == CHOOSE j \in 1..Len(text) :
                    text[j] = sep /\ \A h \in 1..(j - 1) : text[h] # sep
         IN <<SubSeq(text, 1, i - 1)>> \o SplitOn(SubSeq(text, i + 1, Len(text)), sep)

RECURSIVE Trim(_)
\* line.trim()
Trim(line) ==
    IF line = <<>> THEN line
    ELSE IF Head(line) = " " THEN Trim(Tail(line))
    ELSE IF line[Len(line)] = " " THEN Trim(SubSeq(line, 1, Len(line) - 1))
    ELSE line

\* varPattern /^(.+) +(#?[a-zA-Z_][a-zA-Z0-9_]*?)$/ on a trimmed line: the
\* name is the identifier at the end (with its "#"), at least one space
\* stands before it and the greedy (.+) takes all that stands before the
\* last of these spaces.
VarPattern(line) ==
    LET n == Len(line)
    IN IF n >= 3 /\ IsIdentifier(line[n]) /\ line[n - 1] = " "
       THEN [ok |-> TRUE, varName |-> line[n], varType |-> SubSeq(line, 1, n - 2)]
       ELSE IF n >= 4 /\ IsIdentifier(line[n]) /\ line[n - 1] = "#" /\ line[n - 2] = " "
       THEN [ok |-> TRUE, varName |-> "#" \o line[n], varType |-> SubSeq(line, 1, n - 3)]
       ELSE [ok |-> FALSE, varName |-> "", varType |-> <<>>]

\* The string a type expression is when it is used as a registry key: the
\* identifier itself, or a text that is no identifier.
TypeKey(varType) ==
    IF Len(varType) = 1 THEN varType[1] ELSE "(not an identifier)"

BitfieldNames == {"Bitfield8", "Bitfield16", "Bitfield32", "Bitfield64"}

\* bitfieldPattern /^(Bitfield(?:8|16|32|64))\{(.+)\}$/
BitfieldPatternTest(varType) ==
    /\ Len(varType) >= 4
    /\ varType[1] \in BitfieldNames
    /\ varType[2] = "{"
    /\ varType[Len(varType)] = "}"

RECURSIVE DropSpaces(_)
DropSpaces(part) ==
    IF part = <<>> THEN part
    ELSE IF Head(part) = " " THEN DropSpaces(Tail(part))
    ELSE part

RECURSIVE DropLeadingSpaces(_)
\* bitfieldOptions.split(/, */): the spaces after a comma go with the comma.
DropLeadingSpaces(parts) ==
    IF parts = <<>> THEN parts
    ELSE <<Head(parts)>> \o
         [i \in 1..(Len(parts) - 1) |-> DropSpaces(Tail(parts)[i])]

SplitOptions(text) == DropLeadingSpaces(SplitOn(text, ","))

\* One part after f.replace(/^(#?[a-zA-Z][a-zA-Z0-9_]*)/, '"$1"'), read as a
\* JSON member "key": number with JSON's optional white space.
ParseMember(part) ==
    LET keyLen == IF Len(part) >= 1 /\ IsIdentifier(part[1]) THEN 1
                  ELSE IF Len(part) >= 2 /\ part[1] = "#" /\ IsIdentifier(part[2]) THEN 2
                  ELSE 0
        rest   == SelectSeq(SubSeq(part, keyLen + 1, Len(part)), LAMBDA c : c # " ")
    IN IF keyLen > 0 /\ Len(rest) = 2 /\ rest[1] = ":" /\ rest[2] \in DigitStrings
       THEN [length |-> ParseInt(rest[2]),
             name |-> IF keyLen = 1 THEN part[1] ELSE "#" \o part[2],
             ok |-> TRUE]
       ELSE [length |-> 0, name |-> "", ok |-> FALSE]

RECURSIVE MembersToObject(_)
\* The object JSON.parse builds: a key keeps the place of its first
\* occurrence and the value of its last.
MembersToObject(members) ==
    IF members = <<>> THEN <<>>
    ELSE LET init == MembersToObject(SubSeq(members, 1, Len(members) - 1))
             m    == members[Len(members)]
         IN IF \E i \in 1..Len(init) : init[i].name = m.name
            THEN [i \in 1..Len(init) |->
                    IF init[i].name = m.name THEN Field(m.name, m.length) ELSE init[i]]
            ELSE Append(init, Field(m.name, m.length))

\* JSON.parse of the rewritten option text; ok is FALSE when it throws.
ParseBitfieldOptions(text) ==
    LET parts   == SplitOptions(text)
        members == [i \in 1..Len(parts) |-> ParseMember(parts[i])]
    IN IF \A i \in 1..Len(parts) : members[i].ok
       THEN [ok |-> TRUE, options |-> MembersToObject(members)]
       ELSE [ok |-> FALSE, options |-> <<>>]

\* arrayPattern /([a-zA-Z_][a-zA-Z0-9]*)\[([0-9]+)\]/ is not anchored: the
\* places of varType where an identifier, "[", digits and "]" follow one
\* another.
ArrayPatternMatches(varType) ==
    {i \in 1..(Len(varType) - 3) :
        /\ IsIdentifier(varType[i])
        /\ varType[i + 1] = "["
        /\ varType[i + 2] \in DigitStrings
        /\ varType[i + 3] = "]"}

Minimum(S) == CHOOSE x \in S : \A y \in S : x <= y

\* One line of the loop of the constructor (lines 66-97), from the props and
\* the sizeof accumulated so far.
CompileLine(reg, rawLine, props, sizeof) ==
    LET line == Trim(rawLine)
        m    == VarPattern(line)
    IN IF line = <<>> THEN [err |-> "none", props |-> props, sizeof |-> sizeof]
       ELSE IF ~m.ok THEN [err |-> "InvalidField", props |-> props, sizeof |-> sizeof]
       ELSE IF m.varType = <<"string">>
       THEN [err |-> "StringMember", props |-> props, sizeof |-> sizeof]
       ELSE IF BitfieldPatternTest(m.varType)
       THEN LET parsed == ParseBitfieldOptions(SubSeq(m.varType, 3, Len(m.varType) - 1))
            IN IF ~parsed.ok
               THEN [err |-> "MalformedBitfield", props |-> props, sizeof |-> sizeof]
               ELSE [err |-> "none",
                     props |-> Append(props,
                                  [arrayLength |-> 1, name |-> m.varName,
                                   options |-> [fields |-> parsed.options, t |-> "options"],
                                   type |-> m.varType[1]]),
                     sizeof |-> JsAdd(sizeof, Property(reg, m.varType[1]).sizeof)]
       ELSE LET hits        == ArrayPatternMatches(m.varType)
                varType     == IF hits = {} THEN TypeKey(m.varType)
                               ELSE m.varType[Minimum(hits)]
                arrayLength == IF hits = {} THEN 1
                               ELSE ParseInt(m.varType[Minimum(hits) + 2])
            IN IF ~IsDefined(reg, varType)
               THEN [err |-> "NoSuchType", props |-> props, sizeof |-> sizeof]
               ELSE [err |-> "none",
                     props |-> Append(props,
                                  [arrayLength |-> arrayLength, name |-> m.varName,
                                   options |-> Undefined, type |-> varType]),
                     sizeof |-> JsAdd(sizeof,
                                     JsMul(Num(arrayLength), Property(reg, varType).sizeof))]

RECURSIVE CompileLines(_, _, _, _)
\* for (let line of lines): the first throw ends the loop.
CompileLines(reg, lines, props, sizeof) ==
    IF lines = <<>> THEN [err |-> "none", props |-> props, sizeof |-> sizeof]
    ELSE LET r == CompileLine(reg, Head(lines), props, sizeof)
         IN IF r.err # "none" THEN r
            ELSE CompileLines(reg, Tail(lines), r.props, r.sizeof)

\* Lines 61-102 of the constructor: the loop over the lines and, when
\* nothing threw, the registration.
CompileAndRegister(reg, structInfo, structName) ==
    LET r == CompileLines(reg, SplitOn(structInfo, "\n"), <<>>, Num(0))
    IN IF r.err # "none" THEN [err |-> r.err, reg |-> reg]
       ELSE [err |-> "none",
             reg |-> Assign(reg, structName,
                            [hasRead |-> TRUE, hasWrite |-> TRUE, kind |-> "struct",
                             name |-> structName, props |-> r.props,
                             sizeof |-> r.sizeof])]

\* The constructor without its two checks of structName.
NewStructUnchecked(reg, structInfo, structName) ==
    CompileAndRegister(reg, StripCR(structInfo), structName)

\* new Struct(structInfo, structName)
NewStruct(reg, structInfo, structName) ==
    IF IsDefined(primitiveTypes, structName)
    THEN [err |-> "RedefinePrimitive", reg |-> reg]
    ELSE IF IsDefined(reg, structName)
    THEN [err |-> "AlreadyRegistered", reg |-> reg]
    ELSE CompileAndRegister(reg, StripCR(structInfo), structName)

---------------------------------------------------------------------------
(* Bitfield (the class Bitfield.js exports through index.js).              *)

\* bitlen() of Bitfield8, Bitfield16, Bitfield32, Bitfield64.
BitfieldWidths == {8, 16, 32, 64}

RECURSIVE SumLengths(_)
\* Object.values(fields).reduce((sum, l) => sum + l) on a non-empty layout.
SumLengths(fields) ==
    IF Len(fields) = 1 THEN fields[1].length
    ELSE SumLengths(SubSeq(fields, 1, Len(fields) - 1)) + fields[Len(fields)].length

FieldNames(fields) == {fields[i].name : i \in 1..Len(fields)}

FieldIndex(fields, name) == CHOOSE i \in 1..Len(fields) : fields[i].name = name

\* #bitOffsets[name]: currentBit when the accessor of name is defined.
BitOffset(fields, name) ==
    LET i == FieldIndex(fields, name)
    IN IF i = 1 THEN 0 ELSE SumLengths(SubSeq(fields, 1, i - 1))

\* The historical constructor: no check of the layout.
BitfieldConstructorUnchecked(W, value, fields) ==
    [defined |-> FieldNames(fields),
     err |-> "none",
     obj |-> [fields |-> fields, t |-> "bitfield", value |-> value, W |-> W]]

\* new Bitfield<W>(value, fields).  defined is the set of accessors
\* Object.defineProperty has installed when the constructor returns or throws.
BitfieldConstructor(W, value, fields) ==
    IF Len(fields) = 0
    THEN [defined |-> {}, err |-> "TypeError", obj |-> Undefined]
    ELSE IF SumLengths(fields) > W
    THEN [defined |-> {}, err |-> "WidthExceeded", obj |-> Undefined]
    ELSE [defined |-> FieldNames(fields),
          err |-> "none",
          obj |-> [fields |-> fields, t |-> "bitfield", value |-> value, W |-> W]]

\* A shift that counts the offset from the least significant bit.
ShiftFromLsb(b, name) == BitOffset(b.fields, name)

\* this.bitlen() - this.#bitOffsets[name] - length
ShiftOf(b, name) ==
    b.W - BitOffset(b.fields, name) - b.fields[FieldIndex(b.fields, name)].length

LengthOf(b, name) == b.fields[FieldIndex(b.fields, name)].length

\* The getter of field name: (value >> shift) & ((1 << length) - 1).
\* A BigInt value cannot be mixed with the Number shift count.
BitfieldGet(b, name) ==
    IF b.value.big
    THEN [err |-> "TypeError", value |-> Undefined]
    ELSE [err |-> "none",
          value |-> Int32Value(Sar(ToInt32(b.value), ShiftOf(b, name))
                               \cap LowMask(LengthOf(b, name)))]

\* The setter of field name:
\*   mask = ((1 << length) - 1) << shift
\*   value = (value & ~mask) | ((bitValue << shift) & mask)
BitfieldSet(b, name, bitValue) ==
    IF b.value.big \/ bitValue.big
    THEN [err |-> "TypeError", obj |-> b]
    ELSE LET mask == Shl(LowMask(LengthOf(b, name)), ShiftOf(b, name))
             kept == ToInt32(b.value) \ mask
             put  == Shl(ToInt32(bitValue), ShiftOf(b, name)) \cap mask
         IN [err |-> "none",
             obj |-> [b EXCEPT !.value = Int32Value(kept \cup put)]]

---------------------------------------------------------------------------
(* The Bitfield objects a program builds and updates: new Bitfield<W>,     *)
(* the field accessors.                                                    *)

\* The layouts handed to the constructors: the README's and the tests'
\* {flagA: 1, flagB: 3, fieldC: 4}, one field as wide as the container, two
\* halves, a padding field, a layout one bit too wide, the default {}.
Layouts(W) ==
    { <<Field("flagA", 1), Field("flagB", 3), Field("fieldC", 4)>>,
      <<Field("whole", W)>>,
      <<Field("hi", W \div 2), Field("lo", W \div 2)>>,
      <<Field("#pad", 2), Field("x", 3)>>,
      <<Field("whole", W), Field("extra", 1)>>,
      <<>> }

\* A Number holds an integer exactly when its 1 bits span at most 53
\* positions.
Representable(S) ==
    S = {} \/ \A i \in S : \A j \in S : i - j <= 52

\* Raw values in [0, 2^W): 0, 1, the tests' 0b10100111 in the top byte, the
\* top bit with a low bit, all ones.
RawPatterns(W) ==
    { {}, {0}, {W - 1, W - 3, W - 6, W - 7, W - 8}, {W - 1, 1}, 0..(W - 1) }

RawValues(W) ==
    {Unsigned(S, W) : S \in {P \in RawPatterns(W) : Representable(P)}}
    \cup (IF W = 64 THEN {BigUnsigned(S, W) : S \in RawPatterns(W)} ELSE {})

\* Values assigned to a field: 0, 1, 0b110, 0x1FF (wider than most fields)
\* and -1.
BitValues ==
    {Unsigned({}, 32), Unsigned({0}, 32), Unsigned({1, 2}, 32), Unsigned(0..8, 32),
     Int32Value(Word32)}

InitBitfield ==
    /\ loadedStructs = InitialRegistry
    /\ data = <<>>
    /\ bf = Undefined
    /\ seek_head = Num(0)
    /\ last = [op |-> "init"]

\* b = new Bitfield<W>(value, fields), for the one object a run follows; a
\* throw leaves b undefined.
NewBitfield(W, value, fields) ==
    LET r == BitfieldConstructor(W, value, fields)
    IN /\ bf.t = "undef"
       /\ bf' = IF r.err = "none" THEN r.obj ELSE bf
       /\ last' = [defined |-> r.defined, err |-> r.err, fields |-> fields,
                   obj |-> r.obj, op |-> "new", value |-> value, W |-> W]
       /\ UNCHANGED <<loadedStructs, data, seek_head>>

\* b[name] = bitValue
SetField(name, bitValue) ==
    /\ bf.t = "bitfield"
    /\ name \in FieldNames(bf.fields)
    /\ LET r == BitfieldSet(bf, name, bitValue)
       IN /\ bf' = r.obj
          /\ last' = [before |-> bf, bitValue |-> bitValue, err |-> r.err,
                      name |-> name, op |-> "set"]
    /\ UNCHANGED <<loadedStructs, data, seek_head>>

\* b[name]
GetField(name) ==
    /\ bf.t = "bitfield"
    /\ name \in FieldNames(bf.fields)
    /\ LET r == BitfieldGet(bf, name)
       IN last' = [err |-> r.err, name |-> name, op |-> "get", value |-> r.value]
    /\ UNCHANGED <<loadedStructs, data, bf, seek_head>>

AllFieldNames == {"flagA", "flagB", "fieldC", "whole", "hi", "lo", "#pad", "x", "extra"}

---------------------------------------------------------------------------
(* Properties of the Bitfield classes, checked under BitfieldSpec (the     *)
(* specification of NewBitfield, SetField, GetField and Project below).    *)

\* The unsigned integer formed by the length bits of the raw value that
\* start offset bits below the most significant of the W bits.
FieldBits(b, name) ==
    LET length == LengthOf(b, name)
        low    == b.W - BitOffset(b.fields, name) - length
    IN Unsigned({i \in 0..(length - 1) : (low + i) \in b.value.bits}, 64)

\* bitValue modulo 2^length.
Truncated(bitValue, length) ==
    Unsigned({i \in bitValue.bits : i < length}, 64)

\* C4: after set(f, v), get(f) is v masked to the width of f and get(g) of
\* every other field g is what it was before the set, for every container
\* width, layout and raw value.
C4_SetIsolation ==
    last.op = "set" =>
        /\ last.err = "none"
        /\ BitfieldGet(bf, last.name).err = "none"
        /\ SameInteger(BitfieldGet(bf, last.name).value,
                       Truncated(last.bitValue, LengthOf(bf, last.name)))
        /\ \A g \in FieldNames(bf.fields) \ {last.name} :
              BitfieldGet(bf, g) = BitfieldGet(last.before, g)

\* C5: get(f) returns the unsigned integer formed by the width(f) bits of the
\* raw value that start bitOffset(f) bits below the most significant bit, for
\* every container width, layout and raw value in [0, 2^W).
C5_GetExtractsField ==
    (last.op = "get" /\ ~bf.value.neg) =>
        /\ last.err = "none"
        /\ SameInteger(last.value, FieldBits(bf, last.name))

\* C6: a constructor call whose layout's widths sum to more than the
\* container width throws the width error, defines no accessor and produces
\* no object.
C6_WidthOverflowRejected ==
    (last.op = "new" /\ Len(last.fields) > 0 /\ SumLengths(last.fields) > last.W) =>
        /\ last.err = "WidthExceeded"
        /\ last.defined = {}
        /\ last.obj = Undefined
        /\ bf = Undefined

C6_Witness ==
    /\ last.op = "new"
    /\ Len(last.fields) > 0
    /\ SumLengths(last.fields) > last.W
    /\ last.err = "WidthExceeded"

---------------------------------------------------------------------------
(* The registry under compilations and class registrations.                *)

\* The schema of README example 1 and of the test example1, a template
\* literal with indented lines.
Example1Schema ==
    <<"\n",
      " ", " ", "u16", " ", "field1", "\n",
      " ", " ", "u8", " ", "field2", "\n",
      " ", " ", "Bitfield16", "{", "flagA", ":", " ", "1", ",", " ", "flagB", ":", " ",
      "3", ",", " ", "fieldC", ":", " ", "4", "}", " ", "field3", "\n",
      " ">>

\* An indented schema with CR LF line ends and an empty last line.
HeaderSchema ==
    <<" ", "char", "[", "2", "]", " ", "magic", "\r", "\n",
      " ", "u8", " ", "num", "\r", "\n">>

\* A schema that nests the struct S and declares an array.
NestedSchema ==
    <<"S", " ", "inner", "\n", "u8", "[", "2", "]", " ", "tail">>

UnknownTypeSchema == <<"u8", " ", "ok", "\n", "nosuch", " ", "x">>

InvalidLineSchema == <<"u8", " ", "ok", "\n", "u8">>

StringMemberSchema == <<"u8", " ", "ok", "\n", "string", " ", "s">>

MalformedBitfieldSchema ==
    <<"u8", " ", "ok", "\n", "Bitfield8", "{", "a", "}", " ", "x">>

\* Bitfield8 with sub-fields of 5 + 4 = 9 bits.
OverwideSchema ==
    <<"Bitfield8", "{", "a", ":", " ", "5", ",", " ", "b", ":", " ", "4", "}",
      " ", "bf">>

\* A field whose type is a name every object inherits.
InheritedTypeSchema == <<"toString", " ", "x">>

\* An array whose element type is string.
StringArraySchema == <<"string", "[", "2", "]", " ", "s">>

\* Two fields of the same name.
DuplicateFieldSchema == <<"u8", " ", "a", "\n", "u16", " ", "a">>

\* An array of no element, followed by a field.
ZeroArraySchema == <<"u8", "[", "0", "]", " ", "none", "\n", "u8", " ", "b">>

Schemas ==
    {Example1Schema, HeaderSchema, NestedSchema, UnknownTypeSchema,
     InvalidLineSchema, StringMemberSchema, MalformedBitfieldSchema,
     OverwideSchema, InheritedTypeSchema, StringArraySchema,
     DuplicateFieldSchema, ZeroArraySchema}

StructNames == {"S", "T", "u8", "Bitfield16", "toString"}

\* Arguments handed to registerFromClass.
Classes ==
    {Class("Vec", Num(4), "u32", TRUE, TRUE),
     Class("u8", Num(2), "u16", TRUE, TRUE),
     Class("S", Num(1), "s8", TRUE, FALSE),
     Class("NoRead", Num(1), "u8", FALSE, FALSE),
     Class("NoSizeof", UndefinedNumber, "u8", TRUE, TRUE),
     NotAClass}

\* The name a registration is made under.
ClassName(C) == IF C.kind = "class" THEN C.name ELSE ""

Init ==
    /\ loadedStructs = InitialRegistry
    /\ data = <<>>
    /\ bf = Undefined
    /\ seek_head = Num(0)
    /\ last = [before |-> InitialRegistry, err |-> "none", op |-> "init",
               structInfo |-> <<>>, structName |-> ""]

\* new Struct(structInfo, structName)
Compile(structInfo, structName) ==
    LET r == NewStruct(loadedStructs, structInfo, structName)
    IN /\ loadedStructs' = r.reg
       /\ last' = [before |-> loadedStructs, err |-> r.err, op |-> "compile",
                   structInfo |-> structInfo, structName |-> structName]
       /\ UNCHANGED <<data, bf, seek_head>>

\* Struct.registerFromClass(C)
Register(C) ==
    LET r == RegisterFromClass(loadedStructs, C)
    IN /\ loadedStructs' = r.reg
       /\ last' = [before |-> loadedStructs, err |-> r.err, op |-> "register",
                   structInfo |-> <<>>, structName |-> ClassName(C)]
       /\ UNCHANGED <<data, bf, seek_head>>

Next ==
    \/ \E structInfo \in Schemas, structName \in StructNames :
            Compile(structInfo, structName)
    \/ \E C \in Classes : Register(C)

Spec == Init /\ [][Next]_vars

\* The lines of a schema as the constructor sees them.
LinesOf(structInfo) ==
    LET lines == SplitOn(StripCR(structInfo), "\n")
    IN [i \in 1..Len(lines) |-> Trim(lines[i])]

\* The container width a bitfield type name stands for.
WidthOf(type) ==
    CASE type = "Bitfield8" -> 8 [] type = "Bitfield16" -> 16
      [] type = "Bitfield32" -> 32 [] type = "Bitfield64" -> 64

\* A line declares a bitfield field whose sub-field widths sum to more than
\* the width of its container.
IsOverwideLine(line) ==
    LET m == VarPattern(line)
    IN /\ m.ok
       /\ BitfieldPatternTest(m.varType)
       /\ LET parsed == ParseBitfieldOptions(SubSeq(m.varType, 3, Len(m.varType) - 1))
          IN parsed.ok /\ SumLengths(parsed.options) > WidthOf(m.varType[1])

HasOverwideBitfield(structInfo) ==
    \E i \in 1..Len(LinesOf(structInfo)) : IsOverwideLine(LinesOf(structInfo)[i])

\* A line whose type is neither a bitfield nor a name with an entry of its
\* own in the registry.
ReferencesUnregistered(reg, line) ==
    LET m    == VarPattern(line)
        hits == ArrayPatternMatches(m.varType)
        type == IF hits = {} THEN TypeKey(m.varType) ELSE m.varType[Minimum(hits)]
    IN /\ m.ok
       /\ m.varType # <<"string">>
       /\ ~BitfieldPatternTest(m.varType)
       /\ type \notin DOMAIN reg

\* The first line that is not a valid declaration of a registered type is one
\* that references an unregistered type.
FirstFaultIsUnknownType(reg, structInfo) ==
    LET lines == LinesOf(structInfo)
    IN \E i \in 1..Len(lines) :
          /\ ReferencesUnregistered(reg, lines[i])
          /\ \A j \in 1..(i - 1) :
                CompileLine(reg, lines[j], <<>>, Num(0)).err = "none"

CompileFailed == last.op = "compile" /\ last.err # "none"

\* C7: compiling a schema with a bitfield field whose sub-field widths sum to
\* more than the container width fails with WidthOverflow and registers
\* nothing.
C7_CompileRejectsOverwide ==
    (/\ last.op = "compile"
     /\ ~IsDefined(last.before, last.structName)
     /\ HasOverwideBitfield(last.structInfo))
    => /\ last.err = "WidthOverflow"
       /\ loadedStructs = last.before

\* C8: a compilation that references a type name without an entry in the
\* registry fails with UnknownType, and after every failed compilation the
\* registry is exactly as before.
C8_CompileAtomic ==
    /\ (/\ last.op = "compile"
        /\ ~IsDefined(last.before, last.structName)
        /\ FirstFaultIsUnknownType(last.before, last.structInfo))
       => last.err = "NoSuchType"
    /\ CompileFailed => loadedStructs = last.before

\* The second half of C8 alone: a failed compilation leaves the registry as
\* it was.
FailedCompileLeavesRegistry == CompileFailed => loadedStructs = last.before

\* C9: compiling under a name that denotes a primitive or a registered type
\* fails, and the registry (so the descriptor under that name) is as before.
C9_NameConflictRejected ==
    (last.op = "compile" /\ last.structName \in DOMAIN last.before)
    => /\ last.err \in {"RedefinePrimitive", "AlreadyRegistered"}
       /\ loadedStructs = last.before
       /\ loadedStructs[last.structName] = last.before[last.structName]

\* A compilation under the name of a compiled struct, one under the name of a
\* primitive and one under the name of a bitfield container have happened.
C9_Witness ==
    /\ last.op = "compile"
    /\ last.structName = "S"
    /\ "S" \in DOMAIN last.before
    /\ last.before["S"].kind = "struct"
    /\ last.err = "AlreadyRegistered"

\* C10: a registration under a name that already denotes a type fails, and
\* no descriptor bound to a name changes.
C10_EntriesPermanent ==
    /\ (last.op \in {"compile", "register"} /\ last.structName \in DOMAIN last.before)
       => last.err # "none"
    /\ \A name \in DOMAIN last.before :
          name \in DOMAIN loadedStructs /\ loadedStructs[name] = last.before[name]

\* The type expression of a line names string: bare, or as the element type
\* of an array.
NamesString(line) ==
    LET m == VarPattern(line)
    IN /\ m.ok
       /\ \/ m.varType = <<"string">>
          \/ /\ Len(m.varType) = 4
             /\ m.varType[1] = "string"
             /\ m.varType[2] = "["
             /\ m.varType[3] \in DigitStrings
             /\ m.varType[4] = "]"

HasStringField(structInfo) ==
    \E i \in 1..Len(LinesOf(structInfo)) : NamesString(LinesOf(structInfo)[i])

\* C11: compiling a schema in which a field's type expression names string,
\* bare or as the element type of an array, fails and registers nothing, and
\* no registered struct has a field of type string.
C11_StringFieldRejected ==
    /\ (last.op = "compile" /\ HasStringField(last.structInfo))
       => (last.err # "none" /\ loadedStructs = last.before)
    /\ \A name \in DOMAIN loadedStructs :
          loadedStructs[name].kind = "struct"
          => \A i \in 1..Len(loadedStructs[name].props) :
                loadedStructs[name].props[i].type # "string"

\* The compiled structs of a registry.
CompiledStructs(reg) == {name \in DOMAIN reg : reg[name].kind = "struct"}

RECURSIVE SizeSum(_, _)
\* The sum over props of arrayLength times the sizeof the registry holds for
\* the type of the field, in the arithmetic of Numbers.
SizeSum(reg, props) ==
    IF props = <<>> THEN Num(0)
    ELSE JsAdd(JsMul(Num(props[Len(props)].arrayLength),
                     Property(reg, props[Len(props)].type).sizeof),
               SizeSum(reg, SubSeq(props, 1, Len(props) - 1)))

\* C21: in every registry reached by successful and failed new Struct and
\* registerFromClass calls, the sizeof of every compiled struct is a
\* non-negative integer and is the sum over its fields of arrayLength times
\* the sizeof now registered for the type of the field.
C21_SizeInvariant ==
    \A name \in CompiledStructs(loadedStructs) :
        /\ loadedStructs[name].sizeof.k = "int"
        /\ loadedStructs[name].sizeof.n >= 0
        /\ loadedStructs[name].sizeof = SizeSum(loadedStructs, loadedStructs[name].props)

\* The sizeof a compilation registers is the sum over the fields of
\* arrayLength times the sizeof the registry held for the type of the field
\* when the struct was compiled.
SizeIsSumAtCompile ==
    (last.op = "compile" /\ last.err = "none")
    => loadedStructs[last.structName].sizeof
         = SizeSum(last.before, loadedStructs[last.structName].props)

\* The names the fields of a line sequence declare, one per declaration.
DeclaredNames(structInfo) ==
    LET lines == SelectSeq(LinesOf(structInfo), LAMBDA line : line # <<>>)
    IN [i \in 1..Len(lines) |-> VarPattern(lines[i]).varName]

HasDuplicateField(structInfo) ==
    \E i, j \in 1..Len(DeclaredNames(structInfo)) :
        i # j /\ DeclaredNames(structInfo)[i] = DeclaredNames(structInfo)[j]

\* C22: no registered compiled struct has two fields of the same name, and a
\* schema that declares a field name twice is not registered.
C22_FieldNamesUnique ==
    /\ \A name \in CompiledStructs(loadedStructs) :
          \A i, j \in 1..Len(loadedStructs[name].props) :
             loadedStructs[name].props[i].name = loadedStructs[name].props[j].name
             => i = j
    /\ (last.op = "compile" /\ HasDuplicateField(last.structInfo))
       => (last.err # "none" /\ loadedStructs = last.before)

\* A line declares an array of 0 elements.
IsZeroArrayLine(line) ==
    LET m == VarPattern(line)
    IN /\ m.ok
       /\ Len(m.varType) = 4
       /\ IsIdentifier(m.varType[1])
       /\ m.varType[2] = "["
       /\ m.varType[3] = "0"
       /\ m.varType[4] = "]"

HasZeroArray(structInfo) ==
    \E i \in 1..Len(LinesOf(structInfo)) : IsZeroArrayLine(LinesOf(structInfo)[i])

\* C23: every field of every registered compiled struct has arrayLength >= 1,
\* a field declared with a bare type name has arrayLength 1, and a schema
\* with an array of 0 elements is not registered.
C23_ArrayLengthPositive ==
    /\ \A name \in CompiledStructs(loadedStructs) :
          \A i \in 1..Len(loadedStructs[name].props) :
             loadedStructs[name].props[i].arrayLength >= 1
    /\ (last.op = "compile" /\ HasZeroArray(last.structInfo))
       => (last.err # "none" /\ loadedStructs = last.before)

\* The arrays and the bare declarations of a struct that was just compiled
\* have the arrayLength the schema gives them.
ArrayLengthAsDeclared ==
    (last.op = "compile" /\ last.err = "none")
    => LET lines == SelectSeq(LinesOf(last.structInfo), LAMBDA line : line # <<>>)
           props == loadedStructs[last.structName].props
       IN /\ Len(props) = Len(lines)
          /\ \A i \in 1..Len(lines) :
                LET varType == VarPattern(lines[i]).varType
                IN /\ Len(varType) = 1 => props[i].arrayLength = 1
                   /\ (Len(varType) = 4 /\ varType[2] = "[")
                      => props[i].arrayLength = ParseInt(varType[3])

\* The types the fields of a compiled struct name.
FieldTypes(reg, name) == {reg[name].props[i].type : i \in 1..Len(reg[name].props)}

RECURSIVE ReachableTypes(_, _, _)
\* The compiled structs reached from the types of frontier through fields,
\* seen holding those already reached.
ReachableTypes(reg, frontier, seen) ==
    LET new == (frontier \cap CompiledStructs(reg)) \ seen
    IN IF new = {} THEN seen
       ELSE ReachableTypes(reg, UNION {FieldTypes(reg, name) : name \in new},
                           seen \cup new)

\* No compiled struct is reached from its own fields.
AcyclicReferences ==
    \A name \in CompiledStructs(loadedStructs) :
        name \notin ReachableTypes(loadedStructs, FieldTypes(loadedStructs, name), {})

\* C24: every type a field of a compiled struct names was registered before
\* the struct was (a schema that names its own structName or a name not yet
\* registered fails to compile), and no compiled struct is reached from its
\* own fields.
C24_NoForwardReferences ==
    /\ (last.op = "compile" /\ last.err = "none")
       => \A type \in FieldTypes(loadedStructs, last.structName) :
             type \in DOMAIN last.before /\ type # last.structName
    /\ (/\ last.op = "compile"
        /\ ~IsDefined(last.before, last.structName)
        /\ FirstFaultIsUnknownType(last.before, last.structInfo))
       => last.err = "NoSuchType"
    /\ AcyclicReferences

---------------------------------------------------------------------------
(* DataView: the bytes of a buffer, read and written as bit patterns.      *)

\* The 1 bits of a byte.
BitsOfByte(byte) == {j \in 0..7 : (byte \div (2 ^ j)) % 2 = 1}

\* Byte k (0 is the least significant) of a bit pattern.
ByteOf(S, k) ==
    LET bit(j) == IF (8 * k + j) \in S THEN 2 ^ j ELSE 0
    IN bit(0) + bit(1) + bit(2) + bit(3) + bit(4) + bit(5) + bit(6) + bit(7)

\* ToIndex(position) of the DataView accessors: NaN and undefined are index
\* 0, a negative or infinite position is a RangeError.
ToIndex(position) ==
    IF IsNaN(position) THEN [err |-> "none", n |-> 0]
    ELSE IF position.k = "int" /\ position.n >= 0 THEN [err |-> "none", n |-> position.n]
    ELSE [err |-> "RangeError", n |-> 0]

\* data.getUint<8 size>(position, le): the bit pattern of size bytes.
DataViewGet(bytes, position, size, le) ==
    LET ix == ToIndex(position)
    IN IF ix.err # "none" \/ ix.n + size > Len(bytes)
       THEN [bits |-> {}, err |-> "RangeError"]
       ELSE [bits |-> {i \in 0..(8 * size - 1) :
                          LET k   == i \div 8
                              off == IF le THEN k ELSE size - 1 - k
                          IN (i % 8) \in BitsOfByte(bytes[ix.n + 1 + off])},
             err |-> "none"]

\* data.setUint<8 size>(position, S, le) for a bit pattern S of size bytes.
DataViewSet(bytes, position, size, S, le) ==
    LET ix == ToIndex(position)
    IN IF ix.err # "none" \/ ix.n + size > Len(bytes)
       THEN [data |-> bytes, err |-> "RangeError"]
       ELSE [data |-> [x \in 1..Len(bytes) |->
                         IF x - 1 >= ix.n /\ x - 1 < ix.n + size
                         THEN LET off == x - 1 - ix.n
                              IN ByteOf(S, IF le THEN off ELSE size - 1 - off)
                         ELSE bytes[x]],
             err |-> "none"]

\* A signed integer Number read from w bits.
Signed(S, w) == [big |-> FALSE, bits |-> S, neg |-> (w - 1) \in S, t |-> "int", w |-> w]

\* A signed BigInt read from w bits.
BigSigned(S, w) == [big |-> TRUE, bits |-> S, neg |-> (w - 1) \in S, t |-> "int", w |-> w]

\* The low n bits of the two's complement pattern of an integer.
LowBits(v, n) == {i \in 0..(n - 1) : i \in v.bits \/ (v.neg /\ i >= v.w)}

\* The 1 bits of a small natural number.
NumberBits(n) == {i \in 0..30 : (n \div (2 ^ i)) % 2 = 1}

Bool(flag) == [flag |-> flag, t |-> "bool"]

\* A string of one character, by its char code.
Char(code) == [code |-> code, t |-> "char"]

Str(text) == [t |-> "str", text |-> text]

Arr(items) == [items |-> items, t |-> "arr"]

Obj(entries) == [entries |-> entries, t |-> "obj"]

Entry(name, value) == [name |-> name, value |-> value]

\* Boolean(value)
ToBoolean(v) ==
    CASE v.t = "bool" -> v.flag
      [] v.t = "undef" -> FALSE
      [] v.t = "int" -> v.bits # {} \/ v.neg
      [] v.t \in {"char", "arr", "obj", "bitfield"} -> TRUE

\* ToNumber(value) modulo 2^size bits, as the integer setters of DataView
\* take it: NaN is 0, a BigInt is a TypeError, a one-character string is
\* its digit or NaN.
ToNumberBits(v, size) ==
    CASE v.t = "int" /\ ~v.big -> [bits |-> LowBits(v, 8 * size), err |-> "none"]
      [] v.t = "int" /\ v.big -> [bits |-> {}, err |-> "TypeError"]
      [] v.t = "undef" -> [bits |-> {}, err |-> "none"]
      [] v.t = "bool" -> [bits |-> IF v.flag THEN {0} ELSE {}, err |-> "none"]
      [] v.t = "char" -> [bits |-> IF v.code \in 48..57 THEN NumberBits(v.code - 48) ELSE {},
                          err |-> "none"]

\* ToBigInt(value) modulo 2^64, as setBigUint64 and setBigInt64 take it: a
\* Number and undefined are TypeErrors.
ToBigIntBits(v) ==
    CASE v.t = "int" /\ v.big -> [bits |-> LowBits(v, 64), err |-> "none"]
      [] v.t = "int" /\ ~v.big -> [bits |-> {}, err |-> "TypeError"]
      [] v.t = "undef" -> [bits |-> {}, err |-> "TypeError"]
      [] v.t = "bool" -> [bits |-> IF v.flag THEN {0} ELSE {}, err |-> "none"]

---------------------------------------------------------------------------
(* PrimitiveTypes.js: read and write of the integer types, char and bool.  *)

IntegerTypes == {"u8", "s8", "u16", "s16", "u32", "s32", "u64", "s64"}

\* The number of bytes the DataView accessor of an integer type handles.
AccessorSize(type) ==
    CASE type \in {"u8", "s8"} -> 1
      [] type \in {"u16", "s16"} -> 2
      [] type \in {"u32", "s32"} -> 4
      [] type \in {"u64", "s64"} -> 8

\* A string read from a buffer, by its char codes.
StringOf(codes) == [codes |-> codes, t |-> "string"]

RECURSIVE ReadString(_, _, _)
\* The loop of string.read from index i on: the char of every byte up to the
\* first 0 byte; getUint8 at the end of the buffer is a RangeError.
ReadString(bytes, i, codes) ==
    IF i >= Len(bytes) THEN [err |-> "RangeError", value |-> Undefined]
    ELSE IF bytes[i + 1] = 0 THEN [err |-> "none", value |-> StringOf(codes)]
    ELSE ReadString(bytes, i + 1, Append(codes, bytes[i + 1]))

\* primitiveTypes.string.read(data, position).  With position NaN, getUint8
\* reads index 0 and i++ leaves i NaN: the loop ends at once when byte 0 is
\* 0 and never otherwise.
StringRead(bytes, position) ==
    IF IsNaN(position)
    THEN IF Len(bytes) = 0 THEN [err |-> "RangeError", value |-> Undefined]
         ELSE IF bytes[1] = 0 THEN [err |-> "none", value |-> StringOf(<<>>)]
         ELSE [err |-> "NoReturn", value |-> Undefined]
    ELSE IF ToIndex(position).err # "none" THEN [err |-> "RangeError", value |-> Undefined]
    ELSE ReadString(bytes, ToIndex(position).n, <<>>)

\* primitiveTypes[type].read(data, position, isLittleEndian)
ReadPrimitive(bytes, position, type, le) ==
    LET size == IF type \in IntegerTypes THEN AccessorSize(type)
                ELSE IF type = "bool" THEN 4 ELSE 1
        got  == DataViewGet(bytes, position, size, le)
    IN IF type = "string" THEN StringRead(bytes, position)
       ELSE IF got.err # "none" THEN [err |-> got.err, value |-> Undefined]
       ELSE [err |-> "none",
             value |-> CASE type \in {"u8", "u16", "u32"} -> Unsigned(got.bits, 8 * size)
                         [] type \in {"s8", "s16", "s32"} -> Signed(got.bits, 8 * size)
                         [] type = "u64" -> BigUnsigned(got.bits, 64)
                         [] type = "s64" -> BigSigned(got.bits, 64)
                         [] type = "char" -> Char(ByteOf(got.bits, 0))
                         [] type = "bool" -> Bool(got.bits # {})]

\* primitiveTypes[type].write(data, position, value, isLittleEndian).  bool
\* writes Boolean(value) with setUint8, char writes value.charCodeAt(0).
WritePrimitive(bytes, position, value, type, le) ==
    CASE type \in IntegerTypes \ {"u64", "s64"} ->
            LET c == ToNumberBits(value, AccessorSize(type))
            IN IF c.err # "none" THEN [data |-> bytes, err |-> c.err]
               ELSE DataViewSet(bytes, position, AccessorSize(type), c.bits, le)
      [] type \in {"u64", "s64"} ->
            LET c == ToBigIntBits(value)
            IN IF c.err # "none" THEN [data |-> bytes, err |-> c.err]
               ELSE DataViewSet(bytes, position, 8, c.bits, le)
      [] type = "char" ->
            IF value.t = "char"
            THEN DataViewSet(bytes, position, 1, NumberBits(value.code), le)
            ELSE [data |-> bytes, err |-> "TypeError"]
      [] type = "bool" ->
            DataViewSet(bytes, position, 1, IF ToBoolean(value) THEN {0} ELSE {}, le)

---------------------------------------------------------------------------
(* The codec of Struct: readValue, readStruct, writeValue, writeStruct and *)
(* the static read and write of the Bitfield classes.                      *)

\* The unsigned type a Bitfield class reads and writes its raw value with.
RawTypeOf(codec) ==
    CASE codec = "Bitfield8" -> "u8" [] codec = "Bitfield16" -> "u16"
      [] codec = "Bitfield32" -> "u32" [] codec = "Bitfield64" -> "u64"

\* ret[name] = value
PutEntry(entries, name, value) ==
    IF \E i \in 1..Len(entries) : entries[i].name = name
    THEN [i \in 1..Len(entries) |->
            IF entries[i].name = name THEN Entry(name, value) ELSE entries[i]]
    ELSE Append(entries, Entry(name, value))

\* value[name] for an object
Member(v, name) ==
    IF \E i \in 1..Len(v.entries) : v.entries[i].name = name
    THEN v.entries[CHOOSE i \in 1..Len(v.entries) : v.entries[i].name = name].value
    ELSE Undefined

\* struct.props: a registry entry that is no compiled struct has none, and
\* for...in over undefined runs no iteration.
PropsOf(t) == IF t.kind = "struct" THEN t.props ELSE <<>>

RECURSIVE ReadValue(_, _, _, _, _, _)
RECURSIVE ReadStruct(_, _, _, _, _)
RECURSIVE ReadElements(_, _, _, _, _, _, _)
RECURSIVE ReadProps(_, _, _, _, _, _)

\* t.read(data, position, isLittleEndian, options) for a registry entry t: a
\* primitive, a compiled struct (Struct.prototype.read), a Bitfield class
\* (static read: the raw value through readValue, then the constructor with
\* options defaulting to {}) or an inherited function, which has no read.
TypeRead(reg, t, bytes, position, le, options) ==
    CASE t.kind = "primitive" -> ReadPrimitive(bytes, position, t.name, le)
      [] t.kind = "struct" -> ReadStruct(reg, bytes, position, t.name, le)
      [] t.kind = "class" ->
            Let(ReadValue(reg, bytes, position, RawTypeOf(t.codec), le, Undefined),
                LAMBDA raw :
                   IF raw.err # "none" THEN [err |-> raw.err, value |-> Undefined]
                   ELSE Let(BitfieldConstructor(WidthOf(t.codec), raw.value,
                                IF options.t = "undef" THEN <<>> ELSE options.fields),
                            LAMBDA made : [err |-> made.err, value |-> made.obj]))
      [] t.kind = "inherited" -> [err |-> "TypeError", value |-> Undefined]

\* Struct.readValue(data, position, type, isLittleEndian, options) from
\* line 190 on: count is value.length + 1 for 'string' and t.sizeof for any
\* other type.
ReadValue(reg, bytes, position, type, le, options) ==
    IF ~IsDefined(reg, type)
    THEN [count |-> Num(0), err |-> "NoSuchStruct", value |-> Undefined]
    ELSE Let(Property(reg, type),
             LAMBDA t :
                Let(TypeRead(reg, t, bytes, position, le, options),
                    LAMBDA r :
                       IF r.err # "none"
                       THEN [count |-> Num(0), err |-> r.err, value |-> Undefined]
                       ELSE [count |-> IF type = "string" THEN Num(Len(r.value.codes) + 1)
                                       ELSE t.sizeof,
                             err |-> "none", value |-> r.value]))

RECURSIVE ReadElementsInPlace(_, _, _, _, _, _, _)
\* The loop of lines 164-168 with every element read at the place of the
\* first.
ReadElementsInPlace(reg, bytes, iter, prop, le, n, items) ==
    IF n = 0 THEN [count |-> iter, err |-> "none", value |-> Arr(items)]
    ELSE Let(ReadValue(reg, bytes, iter, prop.type, le, prop.options),
             LAMBDA read :
                IF read.err # "none"
                THEN [count |-> iter, err |-> read.err, value |-> Undefined]
                ELSE ReadElementsInPlace(reg, bytes, iter, prop, le, n - 1,
                                         Append(items, read.value)))

\* The loop of lines 164-168: n elements from iter on.
ReadElements(reg, bytes, iter, prop, le, n, items) ==
    IF n = 0 THEN [count |-> iter, err |-> "none", value |-> Arr(items)]
    ELSE Let(ReadValue(reg, bytes, iter, prop.type, le, prop.options),
             LAMBDA read :
                IF read.err # "none"
                THEN [count |-> iter, err |-> read.err, value |-> Undefined]
                ELSE ReadElements(reg, bytes, JsAdd(iter, read.count), prop, le, n - 1,
                                  Append(items, read.value)))

\* The loop of lines 156-171 over the props that remain.
ReadProps(reg, bytes, iter, props, le, ret) ==
    IF props = <<>> THEN [err |-> "none", value |-> Obj(ret)]
    ELSE LET prop == Head(props)
         IN Let(IF prop.arrayLength = 1
                THEN ReadValue(reg, bytes, iter, prop.type, le, prop.options)
                ELSE ReadElements(reg, bytes, iter, prop, le, prop.arrayLength, <<>>),
                LAMBDA read :
                   IF read.err # "none" THEN [err |-> read.err, value |-> Undefined]
                   ELSE ReadProps(reg, bytes,
                                  IF prop.arrayLength = 1 THEN JsAdd(iter, read.count)
                                  ELSE read.count,
                                  Tail(props), le, PutEntry(ret, prop.name, read.value)))

\* Struct.readStruct(data, position, structName, isLittleEndian)
ReadStruct(reg, bytes, position, structName, le) ==
    IF ~IsDefined(reg, structName) THEN [err |-> "NoSuchStruct", value |-> Undefined]
    ELSE ReadProps(reg, bytes, position, PropsOf(Property(reg, structName)), le, <<>>)

\* The test of writeStruct reduced to the sign of position.
PreflightSignOnly(position, sizeof, byteLength) ==
    IF JsLt(position, Num(0)) THEN "RangeError" ELSE "none"

\* Lines 244-248 of writeStruct: the test of position against the size of
\* the struct and the length of the buffer, made before any write.
Preflight(position, sizeof, byteLength) ==
    IF JsLt(position, Num(0)) \/ JsGt(JsAdd(position, sizeof), Num(byteLength))
    THEN "RangeError"
    ELSE IF IsNaN(position) THEN "RangeError"
    ELSE "none"

\* Lines 291-295 of writeValue: the same test for one value.
RangeCheck(position, sizeof, byteLength) ==
    IF JsLt(position, Num(0)) \/ JsGt(JsAdd(position, sizeof), Num(byteLength))
    THEN "RangeError"
    ELSE IF IsNaN(position) THEN "RangeError"
    ELSE "none"

RECURSIVE WriteValue(_, _, _, _, _, _, _)
RECURSIVE WriteStruct(_, _, _, _, _, _)
RECURSIVE WriteElements(_, _, _, _, _, _, _, _)
RECURSIVE WriteProps(_, _, _, _, _, _, _)

\* t.write(data, position, value, isLittleEndian, options) for a registry
\* entry t with a write: a primitive, a compiled struct
\* (Struct.prototype.write) or a Bitfield class (static write: value.value
\* through writeValue).
TypeWrite(reg, t, bytes, position, value, le) ==
    CASE t.kind = "primitive" -> WritePrimitive(bytes, position, value, t.name, le)
      [] t.kind = "struct" ->
            Let(WriteStruct(reg, bytes, position, value, t.name, le),
                LAMBDA w : [data |-> w.data, err |-> w.err])
      [] t.kind = "class" ->
            IF value.t = "undef" THEN [data |-> bytes, err |-> "TypeError"]
            ELSE Let(WriteValue(reg, bytes, position,
                                IF value.t = "bitfield" THEN value.value ELSE Undefined,
                                RawTypeOf(t.codec), le, Undefined),
                     LAMBDA w : [data |-> w.data, err |-> w.err])

\* Struct.writeValue(data, position, value, type, isLittleEndian, options)
WriteValue(reg, bytes, position, value, type, le, options) ==
    IF ~IsDefined(reg, type)
    THEN [count |-> Num(0), data |-> bytes, err |-> "NoSuchStruct"]
    ELSE Let(Property(reg, type),
             LAMBDA t :
                IF ~t.hasWrite THEN [count |-> Num(0), data |-> bytes, err |-> "TypeError"]
                ELSE IF RangeCheck(position, t.sizeof, Len(bytes)) # "none"
                THEN [count |-> Num(0), data |-> bytes, err |-> "RangeError"]
                ELSE Let(TypeWrite(reg, t, bytes, position, value, le),
                         LAMBDA w : [count |-> t.sizeof, data |-> w.data, err |-> w.err]))

RECURSIVE WriteElementsInPlace(_, _, _, _, _, _, _, _)
\* The loop of lines 255-257 without count +=: every element is written at
\* the place of the first.
WriteElementsInPlace(reg, bytes, position, count, held, prop, le, i) ==
    IF i >= prop.arrayLength THEN [count |-> count, data |-> bytes, err |-> "none"]
    ELSE IF held.t = "undef" THEN [count |-> count, data |-> bytes, err |-> "TypeError"]
    ELSE Let(WriteValue(reg, bytes, JsAdd(position, count),
                        IF held.t = "arr" /\ i < Len(held.items)
                        THEN held.items[i + 1] ELSE Undefined,
                        prop.type, le, prop.options),
             LAMBDA w :
                IF w.err # "none" THEN [count |-> count, data |-> w.data, err |-> w.err]
                ELSE WriteElementsInPlace(reg, w.data, position, count, held, prop, le,
                                          i + 1))

\* The loop of lines 255-257: the elements i, i + 1, ... of value[prop.name],
\* which throws a TypeError when value[prop.name] is undefined.
WriteElements(reg, bytes, position, count, held, prop, le, i) ==
    IF i >= prop.arrayLength THEN [count |-> count, data |-> bytes, err |-> "none"]
    ELSE IF held.t = "undef" THEN [count |-> count, data |-> bytes, err |-> "TypeError"]
    ELSE Let(WriteValue(reg, bytes, JsAdd(position, count),
                        IF held.t = "arr" /\ i < Len(held.items)
                        THEN held.items[i + 1] ELSE Undefined,
                        prop.type, le, prop.options),
             LAMBDA w :
                IF w.err # "none" THEN [count |-> count, data |-> w.data, err |-> w.err]
                ELSE WriteElements(reg, w.data, position, JsAdd(count, w.count), held,
                                   prop, le, i + 1))

\* The loop of lines 250-259 over the props that remain, count bytes being
\* written so far.  value[prop.name] throws a TypeError when value is
\* undefined.
WriteProps(reg, bytes, position, count, value, props, le) ==
    IF props = <<>> THEN [count |-> count, data |-> bytes, err |-> "none"]
    ELSE IF value.t = "undef" THEN [count |-> count, data |-> bytes, err |-> "TypeError"]
    ELSE LET prop == Head(props)
             held == IF value.t = "obj" THEN Member(value, prop.name) ELSE Undefined
         IN Let(IF prop.arrayLength = 1
                THEN Let(WriteValue(reg, bytes, JsAdd(position, count), held, prop.type,
                                    le, prop.options),
                         LAMBDA one : [count |-> JsAdd(count, one.count),
                                       data |-> one.data, err |-> one.err])
                ELSE WriteElements(reg, bytes, position, count, held, prop, le, 0),
                LAMBDA w :
                   IF w.err # "none" THEN [count |-> count, data |-> w.data, err |-> w.err]
                   ELSE WriteProps(reg, w.data, position, w.count, value, Tail(props), le))

\* Struct.writeStruct(data, position, value, structName, isLittleEndian)
WriteStruct(reg, bytes, position, value, structName, le) ==
    IF ~IsDefined(reg, structName)
    THEN [count |-> Num(0), data |-> bytes, err |-> "NoSuchStruct"]
    ELSE LET struct == Property(reg, structName)
         IN IF Preflight(position, struct.sizeof, Len(bytes)) # "none"
            THEN [count |-> Num(0), data |-> bytes, err |-> "RangeError"]
            ELSE WriteProps(reg, bytes, position, Num(0), value, PropsOf(struct), le)

---------------------------------------------------------------------------
(* The calls a program makes: the data argument and its test, the static   *)
(* and the instance write of the Bitfield classes.                         *)

\* What a caller hands as data: a DataView, or the ArrayBuffer under it.
ArgKinds == {"DataView", "ArrayBuffer"}

DataArg(kind, bytes) == [data |-> bytes, kind |-> kind]

\* DataView.prototype.isPrototypeOf(data)
IsDataView(arg) == arg.kind = "DataView"

\* Struct.readStruct from its first line.
StructReadStruct(reg, arg, position, structName, le) ==
    IF ~IsDataView(arg) THEN [err |-> "TypeError", value |-> Undefined]
    ELSE ReadStruct(reg, arg.data, position, structName, le)

\* Struct.readValue from its first line.
StructReadValue(reg, arg, position, type, le, options) ==
    IF ~IsDataView(arg) THEN [count |-> Num(0), err |-> "TypeError", value |-> Undefined]
    ELSE ReadValue(reg, arg.data, position, type, le, options)

\* writeStruct writing from the start of the view, whatever position is.
StructWriteStructAtStart(reg, arg, position, value, structName, le) ==
    IF ~IsDataView(arg) THEN [count |-> Num(0), data |-> arg.data, err |-> "TypeError"]
    ELSE WriteStruct(reg, arg.data, Num(0), value, structName, le)

\* Struct.writeStruct from its first line.
StructWriteStruct(reg, arg, position, value, structName, le) ==
    IF ~IsDataView(arg) THEN [count |-> Num(0), data |-> arg.data, err |-> "TypeError"]
    ELSE WriteStruct(reg, arg.data, position, value, structName, le)

\* writeValue without the test of data.
StructWriteValueUnchecked(reg, arg, position, value, type, le, options) ==
    WriteValue(reg, arg.data, position, value, type, le, options)

\* Struct.writeValue from its first line.
StructWriteValue(reg, arg, position, value, type, le, options) ==
    IF ~IsDataView(arg) THEN [count |-> Num(0), data |-> arg.data, err |-> "TypeError"]
    ELSE WriteValue(reg, arg.data, position, value, type, le, options)

\* x.value for the Number x that writeValue returns: a Number has no
\* property value.
ValueOfNumber(x) == Undefined

\* Bitfield<W>.write(data, position, value, isLittleEndian), the static
\* method: return Struct.writeValue(data, position, value.value, 'u<W>',
\* isLittleEndian).value.
BitfieldStaticWrite(reg, arg, position, value, codec, le) ==
    IF value.t = "undef"
    THEN [data |-> arg.data, err |-> "TypeError", value |-> Undefined]
    ELSE Let(StructWriteValue(reg, arg, position,
                              IF value.t = "bitfield" THEN value.value ELSE Undefined,
                              RawTypeOf(codec), le, Undefined),
             LAMBDA w : [data |-> w.data, err |-> w.err,
                         value |-> IF w.err = "none" THEN ValueOfNumber(w.count)
                                   ELSE Undefined])

\* The name of the class of a Bitfield object.
ClassOf(b) ==
    CASE b.W = 8 -> "Bitfield8" [] b.W = 16 -> "Bitfield16"
      [] b.W = 32 -> "Bitfield32" [] b.W = 64 -> "Bitfield64"

\* b.write(data, position, isLittleEndian), the instance method: return
\* Struct.writeValue(data, position, this.value, 'u<W>', isLittleEndian).value.
BitfieldInstanceWrite(reg, arg, position, b, le) ==
    Let(StructWriteValue(reg, arg, position, b.value, RawTypeOf(ClassOf(b)), le,
                         Undefined),
        LAMBDA w : [data |-> w.data, err |-> w.err,
                    value |-> IF w.err = "none" THEN ValueOfNumber(w.count)
                              ELSE Undefined])

---------------------------------------------------------------------------
(* JSON.stringify of a value read: Bitfield.prototype.toJSON.              *)

\* A field name that starts with '#'.
HiddenNames == {"#pad", "#reserved"}

RECURSIVE Digits(_, _)
\* The binary digits of positions i, i - 1, ..., 0 of a bit pattern.
Digits(P, i) ==
    IF i < 0 THEN ""
    ELSE (IF i \in P THEN "1" ELSE "0") \o Digits(P, i - 1)

\* n.toString(2).padStart(length, '0') for a non-negative int32 n.
BinaryString(P, length) ==
    LET top   == IF P = {} THEN 0 ELSE CHOOSE i \in P : \A j \in P : j <= i
        most  == IF top + 1 > length THEN top + 1 ELSE length
    IN Digits(P, most - 1)

Thrown(err) == [err |-> err, t |-> "throw"]

RECURSIVE BitfieldToJSON(_, _, _)
\* toJSON() over the fields that remain: a hidden field is skipped, a field
\* of one bit becomes a boolean, any other '0b' and its binary digits.
BitfieldToJSON(b, fields, ret) ==
    IF fields = <<>> THEN Obj(ret)
    ELSE LET name   == Head(fields).name
             length == Head(fields).length
             got    == BitfieldGet(b, name)
         IN IF name \in HiddenNames THEN BitfieldToJSON(b, Tail(fields), ret)
            ELSE IF got.err # "none" THEN Thrown(got.err)
            ELSE BitfieldToJSON(b, Tail(fields),
                    PutEntry(ret, name,
                             IF length = 1 THEN Bool(got.value.bits # {})
                             ELSE Str("0b" \o BinaryString(got.value.bits, length))))

RECURSIVE ToJSON(_)
\* JSON.parse(JSON.stringify(value)): the toJSON of a bitfield, the members
\* of an object and of an array; a BigInt cannot be serialized.
ToJSON(v) ==
    CASE v.t = "int" -> IF v.big THEN Thrown("TypeError") ELSE v
      [] v.t \in {"bool", "char", "str"} -> v
      [] v.t = "bitfield" -> BitfieldToJSON(v, v.fields, <<>>)
      [] v.t = "arr" ->
            LET items == [i \in 1..Len(v.items) |-> ToJSON(v.items[i])]
            IN IF \E i \in 1..Len(items) : items[i].t = "throw"
               THEN items[CHOOSE i \in 1..Len(items) :
                            items[i].t = "throw" /\ \A j \in 1..(i - 1) : items[j].t # "throw"]
               ELSE Arr(items)
      [] v.t = "obj" ->
            LET values == [i \in 1..Len(v.entries) |-> ToJSON(v.entries[i].value)]
            IN IF \E i \in 1..Len(values) : values[i].t = "throw"
               THEN values[CHOOSE i \in 1..Len(values) :
                            values[i].t = "throw" /\ \A j \in 1..(i - 1) : values[j].t # "throw"]
               ELSE Obj([i \in 1..Len(values) |-> Entry(v.entries[i].name, values[i])])

\* The 1 bits of the magnitude of a negative integer whose two's complement
\* pattern is P: the bits up to the lowest 1 are kept, those above it are
\* inverted.
Magnitude(P, w) ==
    LET low == CHOOSE i \in P : \A j \in P : i <= j
    IN {i \in 0..(w - 1) : i = low \/ (i > low /\ i \notin P)}

\* toString() of Bitfield<W>: `0b${this.value.toString(2).padStart(W, '0')}`;
\* a negative value renders its sign and the digits of its magnitude.
BitfieldToString(b) ==
    IF b.value.neg
    THEN "0b" \o "-" \o BinaryString(Magnitude(b.value.bits, b.value.w), b.W - 1)
    ELSE "0b" \o BinaryString(b.value.bits, b.W)

---------------------------------------------------------------------------
(* The Bitfield objects a program builds, updates and projects.            *)

\* b.toJSON()
Project ==
    /\ bf.t = "bitfield"
    /\ last' = [op |-> "toJSON", value |-> BitfieldToJSON(bf, bf.fields, <<>>)]
    /\ UNCHANGED <<loadedStructs, data, bf, seek_head>>

\* b.toString()
Render ==
    /\ bf.t = "bitfield"
    /\ last' = [op |-> "toString", value |-> Str(BitfieldToString(bf))]
    /\ UNCHANGED <<loadedStructs, data, bf, seek_head>>

NextBitfield ==
    \/ \E W \in BitfieldWidths : \E value \in RawValues(W) : \E fields \in Layouts(W) :
          NewBitfield(W, value, fields)
    \/ \E name \in AllFieldNames : \E bitValue \in BitValues : SetField(name, bitValue)
    \/ \E name \in AllFieldNames : GetField(name)
    \/ Project
    \/ Render

BitfieldSpec == InitBitfield /\ [][NextBitfield]_vars

\* The fields of a layout whose names do not start with '#', in declaration
\* order.
ShownFields(fields) == SelectSeq(fields, LAMBDA f : f.name \notin HiddenNames)

\* The projection of b from the bits of its raw value: a boolean for a field
\* of one bit, '0b' and length binary digits for any other.
ProjectionOf(b) ==
    LET shown == ShownFields(b.fields)
    IN Obj([i \in 1..Len(shown) |->
              Entry(shown[i].name,
                    IF shown[i].length = 1
                    THEN Bool(FieldBits(b, shown[i].name).bits # {})
                    ELSE Str("0b" \o Digits(FieldBits(b, shown[i].name).bits,
                                            shown[i].length - 1)))])

\* C13: toJSON has one entry, in declaration order, for each field whose name
\* does not start with '#': a boolean for a field of one bit, '0b' and the
\* field's bits zero-padded to its width for any other; the get of a '#'
\* field is that of any other field.
C13_Projection ==
    /\ (last.op = "toJSON" /\ ~bf.value.neg) => last.value = ProjectionOf(bf)
    /\ (last.op = "get" /\ last.name \in HiddenNames /\ ~bf.value.neg)
       => (last.err = "none" /\ SameInteger(last.value, FieldBits(bf, last.name)))

\* The raw value is an integer in [0, 2^W).
RawValueInRange(b) ==
    /\ ~b.value.neg
    /\ \A i \in b.value.bits : i < b.W

\* C26: a Bitfield of width 8, 16 or 32 built from a raw value in [0, 2^W)
\* holds, after any sequence of field assignments of any integers, a raw
\* value in [0, 2^W), and toString renders 0b and exactly W binary digits.
C26_RawValueRange ==
    /\ (bf.t = "bitfield" /\ bf.W \in {8, 16, 32}) => RawValueInRange(bf)
    /\ (last.op = "toString" /\ bf.W \in {8, 16, 32})
       => last.value = Str("0b" \o Digits(bf.value.bits, bf.W - 1))

\* C26 for the widths 8 and 16 alone.
NarrowRawValueInRange ==
    /\ (bf.t = "bitfield" /\ bf.W \in {8, 16}) => RawValueInRange(bf)
    /\ (last.op = "toString" /\ bf.W \in {8, 16})
       => last.value = Str("0b" \o Digits(bf.value.bits, bf.W - 1))

---------------------------------------------------------------------------
(* Reads and writes of compiled structs on buffers.                        *)

\* One four-byte member of type bool.
FlagSchema == <<"bool", " ", "on">>

\* A nested struct, an array of signed words and a bitfield with a hidden
\* field.
PacketSchema ==
    <<"Header", " ", "head", "\n",
      "s16", "[", "2", "]", " ", "tail", "\n",
      "Bitfield8", "{", "#pad", ":", " ", "4", ",", " ", "kind", ":", " ", "4", "}",
      " ", "flags">>

WordsSchema == <<"u32", " ", "a", "\n", "s32", " ", "b">>

WideSchema == <<"s64", " ", "a">>

\* A field declared with a bare container type, without a layout.
BareSchema == <<"Bitfield16", " ", "x">>

RECURSIVE CompileAll(_, _)
\* The registry after the structs of a script are compiled one after the
\* other.
CompileAll(reg, script) ==
    IF script = <<>> THEN reg
    ELSE Let(NewStruct(reg, Head(script).structInfo, Head(script).structName).reg,
             LAMBDA next : CompileAll(next, Tail(script)))

Declared(structInfo, structName) == [structInfo |-> structInfo, structName |-> structName]

\* The registry the codec is used with.
CodecRegistry ==
    CompileAll(InitialRegistry,
               <<Declared(Example1Schema, "Example1"), Declared(HeaderSchema, "Header"),
                 Declared(PacketSchema, "Packet"), Declared(FlagSchema, "Flag"),
                 Declared(WordsSchema, "Words"), Declared(WideSchema, "Wide"),
                 Declared(BareSchema, "Bare")>>)

CodecStructNames ==
    {"Example1", "Header", "Packet", "Flag", "Words", "Wide", "Bare", "nosuch", "u8",
     "toString"}

\* The byte length of the buffers.
BufferLength == 8

ZeroBuffer == [i \in 1..BufferLength |-> 0]

\* The first bytes of a buffer, the rest being zero.
Buffer(first) ==
    [i \in 1..BufferLength |-> IF i <= Len(first) THEN first[i] ELSE 0]

\* The buffer of the test example1: setUint16(0, 42, true), setUint8(2, 7),
\* setUint16(3, 0b1010011100000000, true).
Example1Buffer ==
    LET b1 == DataViewSet(ZeroBuffer, Num(0), 2, NumberBits(42), TRUE).data
        b2 == DataViewSet(b1, Num(2), 1, NumberBits(7), FALSE).data
    IN DataViewSet(b2, Num(3), 2, {8, 9, 10, 13, 15}, TRUE).data

\* The buffers handed to the codec: zeros, the buffer of example1, the word 1
\* in big-endian order, bytes with their top bits set.
Buffers ==
    { ZeroBuffer,
      Example1Buffer,
      Buffer(<<0, 0, 0, 1, 65, 66>>),
      Buffer(<<255, 128, 1, 127, 200, 3, 0, 254>>) }

Positions ==
    {Num(p) : p \in (0 - 1)..BufferLength} \cup {NaN, PosInf, NegInf}

\* The values handed to writeStruct for a struct: what a read of it at 0
\* returns on some buffer, and the object {}.
WriteValues(structName) ==
    {r.value : r \in {x \in {ReadStruct(loadedStructs, buffer, Num(0), structName, le) :
                                buffer \in Buffers, le \in BOOLEAN} : x.err = "none"}}
    \cup {Obj(<<>>)}

InitCodec ==
    /\ loadedStructs = CodecRegistry
    /\ data = ZeroBuffer
    /\ bf = Undefined
    /\ seek_head = Num(0)
    /\ last = [op |-> "view"]

\* data = new DataView(buffer)
NewView(buffer) ==
    /\ data' = buffer
    /\ last' = [op |-> "view"]
    /\ UNCHANGED <<loadedStructs, bf, seek_head>>

\* Struct.readStruct(data, position, structName, le)
Read(structName, position, le) ==
    \E r \in {StructReadStruct(loadedStructs, DataArg("DataView", data), position,
                                structName, le)} :
       /\ last' = [before |-> data, err |-> r.err, le |-> le, op |-> "read",
                   position |-> position, structName |-> structName, value |-> r.value]
       /\ UNCHANGED <<loadedStructs, data, bf, seek_head>>

\* Struct.writeStruct(data, position, value, structName, le)
Write(structName, position, value, le) ==
    \E r \in {StructWriteStruct(loadedStructs, DataArg("DataView", data), position, value,
                                 structName, le)} :
       /\ data' = r.data
       /\ last' = [before |-> data, count |-> r.count, err |-> r.err, le |-> le,
                   op |-> "write", position |-> position, structName |-> structName,
                   value |-> value]
       /\ UNCHANGED <<loadedStructs, bf, seek_head>>

\* The round trip of the test example-write: what readStruct
\* returns is written at the same position, with the same byte order, into a
\* new zero-filled buffer of the same length, which data is from then on.
RoundTrip(structName, position, le) ==
    \E r \in {StructReadStruct(loadedStructs, DataArg("DataView", data), position,
                                structName, le)},
       fresh \in {[i \in 1..Len(data) |-> 0]} :
    \E w \in {StructWriteStruct(loadedStructs, DataArg("DataView", fresh), position,
                                 r.value, structName, le)} :
       /\ data' = IF r.err = "none" THEN w.data ELSE fresh
       /\ last' = [before |-> data, err |-> IF r.err = "none" THEN w.err ELSE r.err,
                   le |-> le, op |-> "roundtrip", position |-> position,
                   structName |-> structName, value |-> r.value]
       /\ UNCHANGED <<loadedStructs, bf, seek_head>>

\* The type names handed to readValue and writeValue.
ValueTypes ==
    {"u8", "s16", "u32", "u64", "bool", "char", "string", "Flag", "Header",
     "Bitfield8", "nosuch", "toString"}

\* Bitfield objects with one field as wide as the container.
BitfieldObjects(W) ==
    {BitfieldConstructor(W, value, <<Field("whole", W)>>).obj : value \in RawValues(W)}

\* The values handed to writeValue for a type: objects for a struct, Bitfield
\* objects for a Bitfield class, and for any other name 1, 268, -1, true,
\* false, 'A' and undefined (a BigInt in the place of 'A' for u64).
ValuesFor(type) ==
    IF type \in DOMAIN loadedStructs /\ loadedStructs[type].kind = "struct"
    THEN WriteValues(type)
    ELSE IF type \in DOMAIN loadedStructs /\ loadedStructs[type].kind = "class"
    THEN BitfieldObjects(WidthOf(type)) \cup {Undefined}
    ELSE {Unsigned({0}, 8), Unsigned({2, 3, 8}, 16), Signed(0..7, 8), Bool(TRUE),
          Bool(FALSE), Undefined}
         \cup (IF type = "u64" THEN {BigUnsigned({0, 63}, 64)} ELSE {Char(65)})

\* Struct.readValue(data, position, type, le)
ReadValueCall(type, position, le) ==
    \E r \in {StructReadValue(loadedStructs, DataArg("DataView", data), position, type, le,
                               Undefined)} :
       /\ last' = [before |-> data, count |-> r.count, err |-> r.err, le |-> le,
                   op |-> "readValue", position |-> position, type |-> type,
                   value |-> r.value]
       /\ UNCHANGED <<loadedStructs, data, bf, seek_head>>

\* Struct.writeValue(arg, position, value, type, le), arg being the DataView
\* or the ArrayBuffer under it.
WriteValueCall(kind, type, position, value, le) ==
    \E r \in {StructWriteValue(loadedStructs, DataArg(kind, data), position, value, type,
                                le, Undefined)} :
       /\ data' = r.data
       /\ last' = [before |-> data, count |-> r.count, err |-> r.err, kind |-> kind,
                   le |-> le, op |-> "writeValue", position |-> position,
                   type |-> type, value |-> value]
       /\ UNCHANGED <<loadedStructs, bf, seek_head>>

\* Struct.writeStruct(buffer, position, value, structName, le) with the
\* ArrayBuffer in the place of the DataView.
WriteOnBuffer(structName, position, value, le) ==
    \E r \in {StructWriteStruct(loadedStructs, DataArg("ArrayBuffer", data), position,
                                 value, structName, le)} :
       /\ data' = r.data
       /\ last' = [before |-> data, count |-> r.count, err |-> r.err, le |-> le,
                   op |-> "writeOnBuffer", position |-> position,
                   structName |-> structName, value |-> value]
       /\ UNCHANGED <<loadedStructs, bf, seek_head>>

\* Bitfield<W>.write(data, position, b, le) when static, b.write(data,
\* position, le) otherwise.
BitfieldWriteCall(b, position, le, static) ==
    \E r \in {IF static
               THEN BitfieldStaticWrite(loadedStructs, DataArg("DataView", data), position,
                                        b, ClassOf(b), le)
               ELSE BitfieldInstanceWrite(loadedStructs, DataArg("DataView", data),
                                          position, b, le)} :
       /\ data' = r.data
       /\ last' = [before |-> data, err |-> r.err, flag |-> static, le |-> le,
                   obj |-> b, op |-> "bitfieldWrite", position |-> position,
                   value |-> r.value]
       /\ UNCHANGED <<loadedStructs, bf, seek_head>>

\* A view is made, and one call is made on it.
NextCodec ==
    \/ \E buffer \in Buffers : NewView(buffer)
    \/ /\ last.op = "view"
       /\ \E structName \in CodecStructNames, position \in Positions, le \in BOOLEAN :
             Read(structName, position, le)
    \/ /\ last.op = "view"
       /\ \E structName \in CodecStructNames, position \in Positions, le \in BOOLEAN :
             \E value \in WriteValues(structName) :
                Write(structName, position, value, le)
    \/ /\ last.op = "view"
       /\ \E structName \in CodecStructNames, position \in Positions, le \in BOOLEAN :
             RoundTrip(structName, position, le)
    \/ /\ last.op = "view"
       /\ \E type \in ValueTypes, position \in Positions, le \in BOOLEAN :
             ReadValueCall(type, position, le)
    \/ /\ last.op = "view"
       /\ \E kind \in ArgKinds, type \in ValueTypes, position \in Positions,
             le \in BOOLEAN :
             \E value \in ValuesFor(type) :
                WriteValueCall(kind, type, position, value, le)
    \/ /\ last.op = "view"
       /\ \E structName \in CodecStructNames, position \in Positions, le \in BOOLEAN :
             \E value \in WriteValues(structName) :
                WriteOnBuffer(structName, position, value, le)
    \/ /\ last.op = "view"
       /\ \E W \in BitfieldWidths, position \in Positions, le \in BOOLEAN,
             static \in BOOLEAN :
             \E b \in BitfieldObjects(W) :
                BitfieldWriteCall(b, position, le, static)

CodecSpec == InitCodec /\ [][NextCodec]_vars

---------------------------------------------------------------------------
(* Properties of the codec, checked under CodecSpec.                       *)

\* The struct of the last call is a compiled struct and its bytes from the
\* position of the call lie within the buffer.
FitsBuffer ==
    /\ last.structName \in DOMAIN loadedStructs
    /\ loadedStructs[last.structName].kind = "struct"
    /\ last.position.k = "int"
    /\ last.position.n >= 0
    /\ last.position.n + loadedStructs[last.structName].sizeof.n <= Len(last.before)

\* C1: for every compiled struct, buffer, position that leaves room for the
\* struct and byte order, writing what the read returned into a zero-filled
\* buffer reproduces the bytes of the struct's span.
C1_RoundTrip ==
    (last.op = "roundtrip" /\ FitsBuffer) =>
        /\ last.err = "none"
        /\ \A i \in 1..Len(data) :
              (/\ i > last.position.n
               /\ i <= last.position.n + loadedStructs[last.structName].sizeof.n)
              => data[i] = last.before[i]

\* The position of the last call is negative, NaN or infinite, or the struct
\* does not end within the buffer.
OutOfBounds ==
    LET sizeof == loadedStructs[last.structName].sizeof
    IN \/ last.position.k \in {"nan", "inf", "ninf"}
       \/ last.position.k = "int" /\ last.position.n < 0
       \/ last.position.k = "int" /\ sizeof.k = "int"
            /\ last.position.n + sizeof.n > Len(last.before)

\* C2: a writeStruct call of a registered struct whose position is negative,
\* NaN or infinite, or whose end lies beyond the buffer, throws a RangeError
\* and leaves every byte of the buffer as it was.
C2_PreflightKeepsBuffer ==
    (last.op = "write" /\ last.structName \in DOMAIN loadedStructs /\ OutOfBounds) =>
        /\ last.err = "RangeError"
        /\ data = last.before

\* A struct with a value that fits the first members was handed to
\* writeStruct at a position where its end lies beyond the buffer.
C2_Witness ==
    /\ last.op = "write"
    /\ last.structName = "Example1"
    /\ last.position = Num(BufferLength - 2)
    /\ last.value # Obj(<<>>)
    /\ last.before = ZeroBuffer
    /\ last.err = "RangeError"
    /\ data = last.before

\* { field1: 42, field2: 7,
\*   field3: { flagA: true, flagB: "0b010", fieldC: "0b0111" } }
Example1Projection ==
    Obj(<<Entry("field1", Unsigned(NumberBits(42), 16)),
          Entry("field2", Unsigned(NumberBits(7), 8)),
          Entry("field3", Obj(<<Entry("flagA", Bool(TRUE)),
                                Entry("flagB", Str("0b010")),
                                Entry("fieldC", Str("0b0111"))>>))>>)

Example1Read ==
    /\ last.op = "read"
    /\ last.structName = "Example1"
    /\ last.before = Example1Buffer
    /\ last.position = Num(0)
    /\ last.le

\* C3: a little-endian read of the example1 struct at position 0 of the
\* example1 buffer projects through JSON to field1 42, field2 7 and field3
\* { flagA: true, flagB: "0b010", fieldC: "0b0111" }.
C3_Example1 ==
    Example1Read => last.err = "none" /\ ToJSON(last.value) = Example1Projection

C3_Witness ==
    Example1Read /\ last.err = "none" /\ ToJSON(last.value).t = "obj"

\* The position of the last call is an index at which size bytes lie within
\* the buffer.
RoomFor(size) ==
    /\ last.position.k = "int"
    /\ last.position.n >= 0
    /\ last.position.n + size <= Len(last.before)

\* C12: the static and the instance write of Bitfield<W> store the raw value
\* as a W-bit unsigned integer at position with the given byte order and
\* return W / 8, the number of bytes written.
C12_BitfieldEncode ==
    (last.op = "bitfieldWrite" /\ RoomFor(last.obj.W \div 8)
        /\ (last.obj.W = 64 => last.obj.value.big))
    => /\ last.err = "none"
       /\ data = DataViewSet(last.before, last.position, last.obj.W \div 8,
                             LowBits(last.obj.value, last.obj.W), last.le).data
       /\ last.value = Num(last.obj.W \div 8)

\* The bytes part of C12 alone: the raw value is stored, whatever the call
\* returns.
BitfieldBytesStored ==
    (last.op = "bitfieldWrite" /\ RoomFor(last.obj.W \div 8)
        /\ (last.obj.W = 64 => last.obj.value.big))
    => /\ last.err = "none"
       /\ data = DataViewSet(last.before, last.position, last.obj.W \div 8,
                             LowBits(last.obj.value, last.obj.W), last.le).data

RECURSIVE SlotsOf(_, _, _)
\* The places of a struct from offset on: one slot for every field of
\* arrayLength 1 and one for every element of an array, in declaration and
\* index order, each at the sum of the sizes of all slots before it.
SlotsOf(reg, props, offset) ==
    IF props = <<>> THEN <<>>
    ELSE LET prop == Head(props)
             size == reg[prop.type].sizeof.n
         IN [i \in 1..prop.arrayLength |->
                [arrayLength |-> prop.arrayLength, n |-> i - 1, name |-> prop.name,
                 options |-> prop.options, position |-> Num(offset + (i - 1) * size),
                 type |-> prop.type]]
            \o SlotsOf(reg, Tail(props), offset + prop.arrayLength * size)

\* value[slot.name], or its element slot.n for an array.
SlotValue(value, slot) ==
    LET held == IF value.t = "obj" THEN Member(value, slot.name) ELSE Undefined
    IN IF slot.arrayLength = 1 THEN held
       ELSE IF held.t = "arr" /\ slot.n < Len(held.items) THEN held.items[slot.n + 1]
       ELSE Undefined

RECURSIVE WriteSlots(_, _, _, _, _)
\* The bytes after each slot's value is encoded by its type at the slot's
\* place, one slot after the other.
WriteSlots(reg, bytes, slots, value, le) ==
    IF slots = <<>> THEN bytes
    ELSE WriteSlots(reg,
                    WriteValue(reg, bytes, Head(slots).position,
                               SlotValue(value, Head(slots)), Head(slots).type, le,
                               Head(slots).options).data,
                    Tail(slots), value, le)

\* The last call was a successful writeStruct of a compiled struct.
WriteSucceeded ==
    /\ last.op = "write"
    /\ last.err = "none"
    /\ last.structName \in DOMAIN loadedStructs
    /\ loadedStructs[last.structName].kind = "struct"

\* C14: a successful writeStruct of D at p leaves the bytes that result from
\* encoding each field and array element, in declaration and index order,
\* at p plus the sizes of all that come before it, with the value the object
\* holds under the field's name, and returns D.sizeof.
C14_WriteMirrorsRead ==
    WriteSucceeded =>
        /\ data = WriteSlots(loadedStructs, last.before,
                             SlotsOf(loadedStructs, loadedStructs[last.structName].props,
                                     last.position.n),
                             last.value, last.le)
        /\ last.count = loadedStructs[last.structName].sizeof

\* A nested struct, an array and a bitfield were written from an object
\* that holds them, and the buffer changed.
C14_Witness ==
    /\ WriteSucceeded
    /\ last.structName = "Packet"
    /\ last.value # Obj(<<>>)
    /\ data # last.before
    /\ last.count = loadedStructs["Packet"].sizeof

\* C15: writing a boolean b as bool at p leaves in [p, p + 4) a 4-byte
\* integer that is non-zero exactly when b is true, so that reading bool at
\* p with the same byte order returns b whatever the bytes were before; a
\* read of bool returns true exactly when the 4-byte integer is non-zero.
C15_BoolCodec ==
    /\ (/\ last.op = "writeValue"
        /\ last.kind = "DataView"
        /\ last.type = "bool"
        /\ last.value.t = "bool"
        /\ RoomFor(4))
       => /\ last.err = "none"
          /\ (DataViewGet(data, last.position, 4, last.le).bits # {}) = last.value.flag
          /\ ReadValue(loadedStructs, data, last.position, "bool", last.le,
                       Undefined).value = last.value
    /\ (last.op = "readValue" /\ last.type = "bool" /\ RoomFor(4))
       => /\ last.err = "none"
          /\ last.value
                = Bool(DataViewGet(last.before, last.position, 4, last.le).bits # {})

\* The read half of C15 alone.
BoolReadIsNonZero ==
    (last.op = "readValue" /\ last.type = "bool" /\ RoomFor(4))
    => /\ last.err = "none"
       /\ last.value = Bool(DataViewGet(last.before, last.position, 4, last.le).bits # {})

\* C16: writeValue and writeStruct handed something that is no DataView
\* throw a TypeError, writeValue of a type without write throws a TypeError,
\* and in both cases every byte of the buffer is as before.
C16_TypeErrorsBeforeEffect ==
    /\ ((last.op = "writeValue" /\ last.kind # "DataView") \/ last.op = "writeOnBuffer")
       => (last.err = "TypeError" /\ data = last.before)
    /\ (/\ last.op = "writeValue"
        /\ last.kind = "DataView"
        /\ last.type \in DOMAIN loadedStructs
        /\ ~loadedStructs[last.type].hasWrite)
       => (last.err = "TypeError" /\ data = last.before)

\* writeValue was handed the ArrayBuffer with a type, a position and a value
\* that change the buffer when the DataView is handed.
C16_Witness ==
    /\ last.op = "writeValue"
    /\ last.kind = "ArrayBuffer"
    /\ last.type = "u8"
    /\ last.position = Num(0)
    /\ last.value = Unsigned({0}, 8)
    /\ last.before = ZeroBuffer
    /\ last.err = "TypeError"
    /\ data = last.before

\* C17: readValue, writeValue, readStruct and writeStruct of a name that is
\* neither a primitive nor a registered struct or class fail with the no
\* such struct error and leave the buffer as it was; a registered name never
\* fails with that error.
C17_UnknownNameRejected ==
    /\ (last.op \in {"read", "write"})
       => IF last.structName \in DOMAIN loadedStructs
          THEN last.err # "NoSuchStruct"
          ELSE last.err = "NoSuchStruct" /\ data = last.before
    /\ (last.op = "readValue" \/ (last.op = "writeValue" /\ last.kind = "DataView"))
       => IF last.type \in DOMAIN loadedStructs
          THEN last.err # "NoSuchStruct"
          ELSE last.err = "NoSuchStruct" /\ data = last.before

RECURSIVE FieldsAt(_, _, _, _, _, _)
\* One entry per field of props in declaration order, the field at rel bytes
\* after position when rel is the size of all fields before it: the value
\* decoded there for arrayLength 1, else the sequence of the arrayLength
\* values decoded there one size apart.
FieldsAt(reg, bytes, position, props, rel, le) ==
    IF props = <<>> THEN <<>>
    ELSE LET prop == Head(props)
             size == reg[prop.type].sizeof.n
             At(i) == ReadValue(reg, bytes, JsAdd(position, Num(rel + i * size)),
                                prop.type, le, prop.options).value
         IN <<Entry(prop.name,
                    IF prop.arrayLength = 1 THEN At(0)
                    ELSE Arr([i \in 1..prop.arrayLength |-> At(i - 1)]))>>
            \o FieldsAt(reg, bytes, position, Tail(props), rel + prop.arrayLength * size,
                        le)

RECURSIVE TotalSize(_, _)
\* The sum of the sizes of all fields and elements of props.
TotalSize(reg, props) ==
    IF props = <<>> THEN 0
    ELSE Head(props).arrayLength * reg[Head(props).type].sizeof.n
         + TotalSize(reg, Tail(props))

\* The last call was a successful readStruct of a compiled struct.
ReadSucceeded ==
    /\ last.op = "read"
    /\ last.err = "none"
    /\ last.structName \in DOMAIN loadedStructs
    /\ loadedStructs[last.structName].kind = "struct"

\* C20: a successful readStruct of D at p returns one entry per field in
\* declaration order, holding what the field's type decodes at p plus the
\* sizes of all fields and elements before it (a sequence of arrayLength
\* values for an array), with the byte order of the call; readValue reports
\* the size of the type as count, which for a struct is the sum of the sizes
\* of its fields and elements.
C20_ReadCursor ==
    /\ ReadSucceeded
       => /\ last.value = Obj(FieldsAt(loadedStructs, last.before, last.position,
                                       loadedStructs[last.structName].props, 0, last.le))
          /\ Len(last.value.entries) = Len(loadedStructs[last.structName].props)
    /\ (/\ last.op = "readValue"
        /\ last.err = "none"
        /\ last.type # "string")
       => /\ last.count = loadedStructs[last.type].sizeof
          /\ loadedStructs[last.type].kind = "struct"
             => last.count = Num(TotalSize(loadedStructs, loadedStructs[last.type].props))

\* A nested struct, an array and a bitfield were read at little-endian order
\* from a buffer whose bytes differ.
C20_Witness ==
    /\ ReadSucceeded
    /\ last.structName = "Packet"
    /\ last.le
    /\ last.position = Num(0)
    /\ last.before = Buffer(<<255, 128, 1, 127, 200, 3, 0, 254>>)
    /\ Len(last.value.entries) = Len(loadedStructs["Packet"].props)

\* C25: a writeStruct of a compiled struct (whose fields are primitives,
\* bitfield containers and compiled structs) that raises an error, whatever
\* the supplied value lacks or holds, leaves every byte of the buffer as it
\* was.
C25_FailedWriteKeepsBuffer ==
    (/\ last.op = "write"
     /\ last.err # "none"
     /\ last.structName \in CompiledStructs(loadedStructs))
    => data = last.before

\* Byte i (from 0) of the buffer lies in [position, position + size).
InFrame(i, position, size) ==
    /\ position.k = "int"
    /\ size.k = "int"
    /\ position.n <= i
    /\ i < position.n + size.n

\* C27: a writeStruct of a compiled struct D at p, whether it returns or
\* throws, changes no byte outside [p, p + D.sizeof), and readStruct and
\* readValue change no byte.
C27_WriteFrame ==
    /\ (last.op \in {"write", "writeOnBuffer"}
          /\ last.structName \in CompiledStructs(loadedStructs))
       => /\ Len(data) = Len(last.before)
          /\ \A i \in 1..Len(data) :
                data[i] # last.before[i]
                => InFrame(i - 1, last.position, loadedStructs[last.structName].sizeof)
    /\ (last.op \in {"read", "readValue"}) => data = last.before

\* A struct shorter than the buffer was written inside a buffer whose bytes
\* before and after it are not zero, and bytes changed.
C27_Witness ==
    /\ last.op = "write"
    /\ last.err = "none"
    /\ last.structName = "Example1"
    /\ last.position = Num(2)
    /\ last.before = Buffer(<<255, 128, 1, 127, 200, 3, 0, 254>>)
    /\ data # last.before
    /\ data[1] = 255
    /\ data[8] = 254

\* C28: decoding a bitfield without a layout succeeds: readValue of a
\* Bitfield class without options, and readStruct of a struct whose field is
\* declared with the bare container type, yield a bitfield without
\* sub-fields whose raw value is the integer decoded at the position.
C28_EmptyLayout ==
    /\ (/\ last.op = "readValue"
        /\ last.type \in BitfieldNames
        /\ RoomFor(WidthOf(last.type) \div 8))
       => /\ last.err = "none"
          /\ last.value.t = "bitfield"
          /\ last.value.fields = <<>>
          /\ last.value.value
               = ReadValue(loadedStructs, last.before, last.position,
                           RawTypeOf(last.type), last.le, Undefined).value
    /\ (last.op = "read" /\ last.structName = "Bare" /\ RoomFor(2))
       => /\ last.err = "none"
          /\ Member(last.value, "x").t = "bitfield"
          /\ Member(last.value, "x").fields = <<>>
          /\ Member(last.value, "x").value
               = ReadValue(loadedStructs, last.before, last.position, "u16", last.le,
                           Undefined).value

\* A bitfield decoded with a layout that is not empty holds the integer
\* decoded at the position.
LayoutDecodes ==
    (last.op = "read" /\ last.structName = "Example1" /\ RoomFor(5))
    => /\ last.err = "none"
       /\ Member(last.value, "field3").t = "bitfield"
       /\ Member(last.value, "field3").value
            = ReadValue(loadedStructs, last.before, JsAdd(last.position, Num(3)), "u16",
                        last.le, Undefined).value

---------------------------------------------------------------------------
(* DataViewStream: a read head over a DataView.                            *)

SEEK_SET == 0

SEEK_CUR == 1

SEEK_END == 2

\* new DataViewStream(arg, offset): the bytes of the view new DataView(buffer,
\* offset), or the error thrown.
StreamConstructor(arg, offset) ==
    IF arg.kind # "ArrayBuffer" THEN [data |-> arg.data, err |-> "TypeError"]
    ELSE IF offset > Len(arg.data) THEN [data |-> arg.data, err |-> "RangeError"]
    ELSE [data |-> SubSeq(arg.data, offset + 1, Len(arg.data)), err |-> "none"]

\* seek(offset, whence) on a stream whose head is head and whose view has
\* byteLength bytes: the head after the call and the error thrown.
StreamSeek(head, byteLength, offset, whence) ==
    IF offset.k = "undef" THEN [err |-> "TypeError", head |-> head]
    ELSE IF offset.k = "nan" THEN [err |-> "Error", head |-> head]
    ELSE IF whence = SEEK_SET THEN [err |-> "none", head |-> offset]
    ELSE IF whence = SEEK_CUR THEN [err |-> "none", head |-> JsAdd(head, offset)]
    ELSE IF whence = SEEK_END
    THEN [err |-> "none", head |-> JsAdd(Num(byteLength), offset)]
    ELSE [err |-> "TypeError", head |-> head]

\* tell()
StreamTell(head) == head

\* readNext with the head left where it was.
StreamReadNextInPlace(reg, bytes, head, type, le) ==
    Let(StructReadValue(reg, DataArg("DataView", bytes), head, type, le, Undefined),
        LAMBDA readValue : [err |-> readValue.err, head |-> head,
                            value |-> readValue.value])

\* readNext(type, le)
StreamReadNext(reg, bytes, head, type, le) ==
    Let(StructReadValue(reg, DataArg("DataView", bytes), head, type, le, Undefined),
        LAMBDA readValue :
            IF readValue.err # "none"
            THEN [err |-> readValue.err, head |-> head, value |-> Undefined]
            ELSE [err |-> "none", head |-> JsAdd(head, readValue.count),
                  value |-> readValue.value])

\* readAt(offset, type, le)
StreamReadAt(reg, bytes, offset, type, le) ==
    IF offset.k = "undef" THEN [err |-> "TypeError", value |-> Undefined]
    ELSE IF offset.k = "nan" THEN [err |-> "Error", value |-> Undefined]
    ELSE Let(StructReadValue(reg, DataArg("DataView", bytes), offset, type, le, Undefined),
             LAMBDA readValue :
                 [err |-> readValue.err,
                  value |-> IF readValue.err = "none" THEN readValue.value ELSE Undefined])

---------------------------------------------------------------------------
(* The calls a program makes on a stream.                                  *)

\* The offsets at which the view of a stream starts in its buffer.
ViewOffsets == {0, 3, BufferLength + 1}

\* The read head of the streams explored stays within -HeadBound..HeadBound
\* when it is finite.
HeadBound == 10

InHeadBound(head) == head.k = "int" => (head.n >= 0 - HeadBound /\ head.n <= HeadBound)

\* The offsets handed to seek and readAt: numbers before, inside and beyond
\* the view, NaN, the infinities and undefined.
SeekOffsets ==
    {Num(0 - 1), Num(0), Num(2), Num(BufferLength + 1), NaN, PosInf, NegInf,
     UndefinedNumber}

ReadOffsets == {Num(0), Num(3), NaN, UndefinedNumber}

Whences == {SEEK_SET, SEEK_CUR, SEEK_END, 3}

StreamTypes == {"u8", "s16", "string", "Header", "Bitfield8", "nosuch"}

StreamBuffers == {Example1Buffer, Buffer(<<255, 128, 1, 127, 200, 3, 0, 254>>)}

InitStream ==
    /\ loadedStructs = CodecRegistry
    /\ data = ZeroBuffer
    /\ bf = Undefined
    /\ seek_head = Num(0)
    /\ last = [err |-> "none", op |-> "stream"]

\* stream = new DataViewStream(arg, offset)
NewStream(kind, buffer, offset) ==
    \E r \in {StreamConstructor(DataArg(kind, buffer), offset)} :
       /\ data' = IF r.err = "none" THEN r.data ELSE data
       /\ seek_head' = IF r.err = "none" THEN Num(0) ELSE seek_head
       /\ last' = [err |-> r.err, op |-> "stream"]
       /\ UNCHANGED <<loadedStructs, bf>>

\* stream.seek(offset, whence)
Seek(offset, whence) ==
    \E r \in {StreamSeek(seek_head, Len(data), offset, whence)} :
       /\ InHeadBound(r.head)
       /\ seek_head' = r.head
       /\ last' = [err |-> r.err, head |-> seek_head, offset |-> offset, op |-> "seek",
                   whence |-> whence]
       /\ UNCHANGED <<loadedStructs, data, bf>>

\* stream.tell()
Tell ==
    /\ last' = [head |-> seek_head, op |-> "tell", value |-> StreamTell(seek_head)]
    /\ UNCHANGED <<loadedStructs, data, bf, seek_head>>

\* stream.readNext(type, le)
ReadNext(type, le) ==
    \E r \in {StreamReadNext(loadedStructs, data, seek_head, type, le)} :
       /\ seek_head' = r.head
       /\ last' = [err |-> r.err, head |-> seek_head, le |-> le, op |-> "readNext",
                   type |-> type, value |-> r.value]
       /\ UNCHANGED <<loadedStructs, data, bf>>

\* stream.readAt(offset, type, le)
ReadAt(offset, type, le) ==
    \E r \in {StreamReadAt(loadedStructs, data, offset, type, le)} :
       /\ last' = [err |-> r.err, head |-> seek_head, le |-> le, offset |-> offset,
                   op |-> "readAt", type |-> type, value |-> r.value]
       /\ UNCHANGED <<loadedStructs, data, bf, seek_head>>

NextStream ==
    \/ \E kind \in ArgKinds, buffer \in StreamBuffers, offset \in ViewOffsets :
          NewStream(kind, buffer, offset)
    \/ \E offset \in SeekOffsets, whence \in Whences : Seek(offset, whence)
    \/ Tell
    \/ \E type \in StreamTypes, le \in BOOLEAN : ReadNext(type, le)
    \/ \E offset \in ReadOffsets, type \in StreamTypes, le \in BOOLEAN :
          ReadAt(offset, type, le)

StreamSpec == InitStream /\ [][NextStream]_vars

---------------------------------------------------------------------------
(* Properties of the stream, checked under StreamSpec.                     *)

\* The number of bytes a value read as type occupies: the chars of a string
\* and its terminator, the size of the type otherwise.
Occupied(type, value) ==
    IF type = "string" THEN Num(Len(value.codes) + 1) ELSE loadedStructs[type].sizeof

\* C18: a readNext that succeeds returns the value decoded at the head and
\* moves the head forward by the bytes that value occupies; a readNext that
\* throws leaves the head where it was; readAt returns the value decoded at
\* its offset and leaves the head where it was; a seek that succeeds puts the
\* head at offset, at the previous head plus offset or at byteLength plus
\* offset according to whence, and tell returns the head.
C18_StreamCursor ==
    /\ (last.op = "readNext" /\ last.err = "none")
       => /\ last.value = ReadValue(loadedStructs, data, last.head, last.type, last.le,
                                    Undefined).value
          /\ seek_head = JsAdd(last.head, Occupied(last.type, last.value))
    /\ (last.op = "readNext" /\ last.err # "none") => seek_head = last.head
    /\ (last.op = "readAt")
       => /\ seek_head = last.head
          /\ last.err = "none"
             => last.value = ReadValue(loadedStructs, data, last.offset, last.type,
                                       last.le, Undefined).value
    /\ (last.op = "seek" /\ last.err = "none")
       => seek_head = CASE last.whence = SEEK_SET -> last.offset
                        [] last.whence = SEEK_CUR -> JsAdd(last.head, last.offset)
                        [] last.whence = SEEK_END -> JsAdd(Num(Len(data)), last.offset)
    /\ (last.op = "tell") => (last.value = seek_head /\ seek_head = last.head)

\* A struct was read by readNext from a head that a seek had moved, in a view
\* that starts inside its buffer.
C18_Witness ==
    /\ last.op = "readNext"
    /\ last.err = "none"
    /\ last.type = "Header"
    /\ Len(data) < BufferLength
    /\ last.head = Num(2)
    /\ seek_head = JsAdd(Num(2), loadedStructs["Header"].sizeof)
    /\ last.value # Undefined

\* The position seek is asked for.
SeekTarget ==
    CASE last.whence = SEEK_SET -> last.offset
      [] last.whence = SEEK_CUR -> JsAdd(last.head, last.offset)
      [] last.whence = SEEK_END -> JsAdd(Num(Len(data)), last.offset)
      [] OTHER -> last.head

InBounds(head) == head.k = "int" /\ head.n >= 0 /\ head.n <= Len(data)

\* C19: the head is never below 0 nor beyond byteLength, and a seek whose
\* target is out of these bounds throws a RangeError and leaves the head
\* where it was.
C19_HeadInBounds ==
    /\ InBounds(seek_head)
    /\ (last.op = "seek" /\ last.offset.k \notin {"undef", "nan"} /\ ~InBounds(SeekTarget))
       => (last.err = "RangeError" /\ seek_head = last.head)

\* Reads alone keep the head within the view.
ReadsKeepHeadInBounds ==
    (last.op \in {"readNext", "readAt"} /\ InBounds(last.head)) => InBounds(seek_head)

====
